---- MODULE Spec2Model ----
(***************************************************************************)
(* Model of the spice organizer's SpiceLogic class                         *)
(* (src/unnamed/part_004, the module spice.tsx imports as                  *)
(* ./logic/SpiceLogic): the inventory store, the local-storage snapshot    *)
(* and the shelf distribution (linear partition + range labels).           *)
(*                                                                         *)
(* Strings are sequences of one-character strings, so that trim, split,    *)
(* charAt, startsWith, template literals and indexOf are computed the way  *)
(* the code computes them.  Indices into ALPHABET are 0-based as in the    *)
(* source; IndexOf returns -1 for "not found" and At returns Undefined     *)
(* for an out-of-range read.                                               *)
(*                                                                         *)
(* Left out: submissions, userName and userId (never read by the inventory *)
(* or distribution code) and InventoryItem.addedAt (written once, never    *)
(* read by the logic).                                                     *)
(***************************************************************************)
EXTENDS Integers, Sequences, FiniteSets, TLC

\* ------------------------------------------------------------------ bounds
MaxAdds == 2          \* addSpice is explored up to this many calls
MaxShelfArg == 2      \* setNumShelves is called with -1 .. MaxShelfArg
MaxBucket == 2        \* a bucket count is explored up to this value
MaxNonZero == 4       \* distribution inputs: at most this many letters with jars
MaxDistShelves == 4   \* distribution inputs: numShelves in 1 .. MaxDistShelves
BigCount == 12        \* distribution inputs: the large jar count letter A may hold
MaxEntries == 3       \* store inputs: inventories of up to this many entries
MaxCatalog == 3       \* search inputs: catalogs of up to this many spices
MaxLimit == 3         \* search inputs: limit in -1 .. MaxLimit
MaxEdgeLetters == 2   \* degenerate inputs: at most this many letters with jars

\* --------------------------------------------------------------- characters
ALPHABET ==
  <<"A","B","C","D","E","F","G","H","I","J","K","L","M",
    "N","O","P","Q","R","S","T","U","V","W","X","Y","Z">>

LOWERCASE ==
  <<"a","b","c","d","e","f","g","h","i","j","k","l","m",
    "n","o","p","q","r","s","t","u","v","w","x","y","z">>

Letters == {ALPHABET[i] : i \in 1..26}

Undefined == "undefined"

Null == "null"

\* String.prototype.toUpperCase / toLowerCase on one character.
UpperChar(c) ==
  IF \E i \in 1..26 : LOWERCASE[i] = c
  THEN ALPHABET[CHOOSE i \in 1..26 : LOWERCASE[i] = c]
  ELSE c

LowerChar(c) ==
  IF \E i \in 1..26 : ALPHABET[i] = c
  THEN LOWERCASE[CHOOSE i \in 1..26 : ALPHABET[i] = c]
  ELSE c

ToUpperCase(s) == [i \in DOMAIN s |-> UpperChar(s[i])]

ToLowerCase(s) == [i \in DOMAIN s |-> LowerChar(s[i])]

\* fullAlphabet.indexOf(ch): 0-based, -1 when ch is no letter.
IndexOf(ch) ==
  IF \E i \in 1..26 : ALPHABET[i] = ch
  THEN (CHOOSE i \in 1..26 : ALPHABET[i] = ch) - 1
  ELSE -1

\* A read of the alphabet that takes i as a 1-based position.
AtOneBased(i) == IF i \in 1..26 THEN ALPHABET[i] ELSE Undefined

\* fullAlphabet[i]: undefined outside 0..25.
At(i) == IF i \in 0..25 THEN ALPHABET[i + 1] ELSE Undefined

\* name.charAt(0).toUpperCase(): the bucket key of a name ("" for "").
FirstLetter(name) == IF Len(name) = 0 THEN "" ELSE UpperChar(name[1])

\* ------------------------------------------------- properlyCapitalizeName
\* The characters \s and trim() treat as white space.
Whitespace == {" ", "\t", "\n"}

IsSpace(c) == c \in Whitespace

RECURSIVE TrimStart(_)
TrimStart(s) ==
  IF Len(s) > 0 /\ IsSpace(s[1]) THEN TrimStart(Tail(s)) ELSE s

RECURSIVE TrimEnd(_)
TrimEnd(s) ==
  IF Len(s) > 0 /\ IsSpace(s[Len(s)]) THEN TrimEnd(SubSeq(s, 1, Len(s) - 1)) ELSE s

Trim(s) == TrimEnd(TrimStart(s))

\* trimmed.split(/\s+/) for a trimmed, non-empty string: the maximal runs of
\* non-space characters, in order.
RECURSIVE SplitWords(_, _, _)
SplitWords(s, cur, acc) ==
  IF Len(s) = 0 THEN (IF Len(cur) > 0 THEN Append(acc, cur) ELSE acc)
  ELSE IF IsSpace(s[1])
       THEN SplitWords(Tail(s), <<>>, IF Len(cur) > 0 THEN Append(acc, cur) ELSE acc)
       ELSE SplitWords(Tail(s), Append(cur, s[1]), acc)

knownAbbreviations == { <<"B","B","Q">>, <<"M","S","G">>, <<"C","B","D">> }

lowercaseConnectors ==
  { <<"a","n","d">>, <<"o","r">>, <<"t","h","e">>, <<"i","n">>, <<"o","f">>,
    <<"w","i","t","h">>, <<"f","o","r">> }

\* The callback of words.map: index is the 0-based position of the word.
CapitalizeWord(word, index) ==
  IF Len(word) = 0 THEN <<>>
  ELSE IF ToUpperCase(word) \in knownAbbreviations THEN ToUpperCase(word)
  ELSE IF index > 0 /\ ToLowerCase(word) \in lowercaseConnectors THEN ToLowerCase(word)
  ELSE <<UpperChar(word[1])>> \o ToLowerCase(Tail(word))

RECURSIVE JoinWords(_)
JoinWords(words) ==
  IF Len(words) = 0 THEN <<>>
  ELSE IF Len(words) = 1 THEN words[1]
  ELSE words[1] \o <<" ">> \o JoinWords(Tail(words))

properlyCapitalizeName(name) ==
  IF Len(name) = 0 THEN <<>>
  ELSE LET trimmed == Trim(name) IN
       IF Len(trimmed) = 0 THEN <<>>
       ELSE LET words == SplitWords(trimmed, <<>>, <<>>) IN
            JoinWords([i \in DOMAIN words |-> CapitalizeWord(words[i], i - 1)])

\* ------------------------------------------------------------------ inputs
\* Names passed to addSpice: one that needs trimming, space collapsing, a
\* connector and an abbreviation; a plain one on the same letter; a
\* whitespace-only name and the empty name (both normalize to "", whose
\* bucket key "" is none of the 26 letters).
RawNames ==
  { <<"b","a","s","i","l">>,
    <<" ","b","a","y"," "," ","O","F"," ","b","b","q"," ">>,
    <<" ">>,
    <<>> }

\* The names the drawn inventories are built from: the names above as
\* addSpice stores them, and one that starts with a digit.
StoreNames == {properlyCapitalizeName(n) : n \in RawNames \cup {<<"5", " ", "s", "p", "i", "c", "e">>}}

\* The keys letterCounts can hold: the 26 letters the constructor writes and
\* the first characters addSpice can add.
Keys == Letters \cup {FirstLetter(n) : n \in StoreNames}

\* new Date().toLocaleString(): some timestamp string.
Timestamps == {"t1"}

NoData == [present |-> FALSE]

\* A result variable before the method was called, and after it returned value.
NotComputed == [computed |-> FALSE]

\* loadData() has not been called.
NotCalled == [pc |-> "idle"]

\* useState<LetterCounts>({})
EmptyObject == "{}"

\* No timeout is pending: none was set, or it was cleared, or it has fired.
NoTimeout == [pending |-> FALSE]

\* fs.existsSync(submissionsPath) is false.
NoFile == [exists |-> FALSE]

Computed(value) == [computed |-> TRUE, value |-> value]

ZeroCounts == [k \in Keys |-> 0]

VARIABLES
  inventory,         \* this.inventory: sequence of [id, name]
  letterCounts,      \* this.letterCounts: Keys -> Nat (0 also stands for an absent key)
  numShelves,        \* this.numShelves
  totalJars,         \* this.totalJars
  lastUpdated,       \* this.lastUpdated: Null or a timestamp
  ignoreDuplicates,  \* this.ignoreDuplicates
  storage,           \* localStorage[STORAGE_KEY]: NoData or the saved snapshot
  lastCall,          \* the last method call: its name, argument and return value
  distribution,      \* the value calculateOptimalDistribution() last returned
  shelfInfo,         \* the value calculateItemsPerShelf() last returned
  issuedIds,         \* how many ids Date.now()/Math.random() have produced so far
  spices,            \* this.spices: the catalog, a sequence of [name]
  searchResults,     \* the value fuzzySearch() last returned
  inventoryFile,     \* server: inventory/<userId>.json, NoData or the saved snapshot
  loadCall,          \* the position of the component's loadData() call
  uiLetterCounts,    \* component state letterCounts: "{}" or "this.letterCounts"
  saveTimeout,       \* the save effect's timeout: NoTimeout or the time it has waited
  spiceList,         \* server: the lines of public/spicelist.md after the --- marker
  submissions        \* server: submissions.json, NoFile or a sequence of [name, category]

vars ==
  <<inventory, letterCounts, numShelves, totalJars, lastUpdated, ignoreDuplicates,
    storage, lastCall, distribution, shelfInfo, issuedIds, spices, searchResults,
    inventoryFile, loadCall, uiLetterCounts, saveTimeout, spiceList, submissions>>

\* ------------------------------------------------------------ inventory store
DefaultNumShelves == 3

\* Letter counts recomputed the way loadFromStorage does: the 26 letters are
\* zeroed, every other key keeps its old value, then each entry adds one.
RECURSIVE CountEntries(_, _)
CountEntries(items, counts) ==
  IF Len(items) = 0 THEN counts
  ELSE CountEntries(Tail(items),
                    [counts EXCEPT ![FirstLetter(items[1].name)] = @ + 1])

\* A zeroing step that was left out.
ZeroLettersSkipped(counts) == counts

ZeroLetters(counts) == [k \in Keys |-> IF k \in Letters THEN 0 ELSE counts[k]]

IdsOf(items) == {items[i].id : i \in DOMAIN items}

\* `${Date.now()}-${random}`: an id no entry was given before.
FreshId == issuedIds + 1

Max(a, b) == IF a > b THEN a ELSE b

Min(a, b) == IF a < b THEN a ELSE b

\* A removal that moves the last entry into the hole, as a swap-and-pop
\* would.
FilterOutIdSwap(items, id) ==
  IF id \notin {items[i].id : i \in DOMAIN items} THEN items
  ELSE LET p == CHOOSE i \in DOMAIN items : items[i].id = id
       IN IF p = Len(items) THEN SubSeq(items, 1, Len(items) - 1)
          ELSE SubSeq(items, 1, p - 1) \o <<items[Len(items)]>>
                 \o SubSeq(items, p + 1, Len(items) - 1)

\* inventory.filter(item => item.id !== id)
RECURSIVE FilterOutId(_, _)
FilterOutId(items, id) ==
  IF Len(items) = 0 THEN <<>>
  ELSE IF items[1].id = id THEN FilterOutId(Tail(items), id)
       ELSE <<items[1]>> \o FilterOutId(Tail(items), id)

\* inventory.find(item => item.id === id): the first entry with that id.
FindById(items, id) == items[CHOOSE i \in DOMAIN items :
                               /\ items[i].id = id
                               /\ \A j \in 1..(i - 1) : items[j].id /= id]

Construct ==
  /\ inventory' = <<>>
  /\ letterCounts' = ZeroCounts
  /\ numShelves' = DefaultNumShelves
  /\ totalJars' = 0
  /\ lastUpdated' = Null
  /\ ignoreDuplicates' = FALSE
  /\ lastCall' = [op |-> "constructor"]
  /\ UNCHANGED <<storage, distribution, shelfInfo, issuedIds,
                 spices, searchResults,
                 inventoryFile, loadCall, uiLetterCounts, saveTimeout, spiceList, submissions>>

\* An addSpice that forgets this.totalJars += 1.
addSpiceNoTotal(raw) ==
  LET properlyCapitalizedName == properlyCapitalizeName(raw)
      firstLetter == FirstLetter(properlyCapitalizedName)
      newItem == [id |-> FreshId, name |-> properlyCapitalizedName]
  IN /\ issuedIds < MaxAdds
     /\ letterCounts[firstLetter] < MaxBucket
     /\ issuedIds' = issuedIds + 1
     /\ inventory' = Append(inventory, newItem)
     /\ letterCounts' = [letterCounts EXCEPT ![firstLetter] = @ + 1]
     /\ lastCall' = [op |-> "addSpice", arg |-> raw]
     /\ UNCHANGED <<numShelves, totalJars, lastUpdated, ignoreDuplicates, storage,
                    distribution, shelfInfo,
                 spices, searchResults,
                 inventoryFile, loadCall, uiLetterCounts, saveTimeout, spiceList, submissions>>

addSpice(raw) ==
  LET properlyCapitalizedName == properlyCapitalizeName(raw)
      firstLetter == FirstLetter(properlyCapitalizedName)
      newItem == [id |-> FreshId, name |-> properlyCapitalizedName]
  IN /\ issuedIds < MaxAdds
     /\ letterCounts[firstLetter] < MaxBucket
     /\ issuedIds' = issuedIds + 1
     /\ inventory' = Append(inventory, newItem)
     /\ letterCounts' = [letterCounts EXCEPT ![firstLetter] = @ + 1]
     /\ totalJars' = totalJars + 1
     /\ lastCall' = [op |-> "addSpice", arg |-> raw]
     /\ UNCHANGED <<numShelves, lastUpdated, ignoreDuplicates, storage,
                    distribution, shelfInfo,
                 spices, searchResults,
                 inventoryFile, loadCall, uiLetterCounts, saveTimeout, spiceList, submissions>>

\* A removeSpice that takes 1 from the total before it looks the id up.
removeSpiceCountsFirst(id) ==
  IF id \notin IdsOf(inventory)
  THEN /\ totalJars' = totalJars - 1
       /\ lastCall' = [op |-> "removeSpice", arg |-> id, ret |-> FALSE]
       /\ UNCHANGED <<inventory, letterCounts, numShelves, lastUpdated,
                      ignoreDuplicates, storage, distribution, shelfInfo, issuedIds,
                 spices, searchResults,
                 inventoryFile, loadCall, uiLetterCounts, saveTimeout, spiceList, submissions>>
  ELSE LET itemToRemove == FindById(inventory, id)
           firstLetter == FirstLetter(itemToRemove.name)
       IN /\ inventory' = FilterOutId(inventory, id)
          /\ letterCounts' = [letterCounts EXCEPT ![firstLetter] = Max(0, @ - 1)]
          /\ totalJars' = totalJars - 1
          /\ lastCall' = [op |-> "removeSpice", arg |-> id, ret |-> TRUE]
          /\ UNCHANGED <<numShelves, lastUpdated, ignoreDuplicates, storage,
                         distribution, shelfInfo, issuedIds,
                 spices, searchResults,
                 inventoryFile, loadCall, uiLetterCounts, saveTimeout, spiceList, submissions>>

removeSpice(id) ==
  IF id \notin IdsOf(inventory)
  THEN /\ lastCall' = [op |-> "removeSpice", arg |-> id, ret |-> FALSE]
       /\ UNCHANGED <<inventory, letterCounts, numShelves, totalJars, lastUpdated,
                      ignoreDuplicates, storage, distribution, shelfInfo, issuedIds,
                 spices, searchResults,
                 inventoryFile, loadCall, uiLetterCounts, saveTimeout, spiceList, submissions>>
  ELSE LET itemToRemove == FindById(inventory, id)
           firstLetter == FirstLetter(itemToRemove.name)
       IN /\ inventory' = FilterOutId(inventory, id)
          /\ letterCounts' = [letterCounts EXCEPT ![firstLetter] = Max(0, @ - 1)]
          /\ totalJars' = totalJars - 1
          /\ lastCall' = [op |-> "removeSpice", arg |-> id, ret |-> TRUE]
          /\ UNCHANGED <<numShelves, lastUpdated, ignoreDuplicates, storage,
                         distribution, shelfInfo, issuedIds,
                 spices, searchResults,
                 inventoryFile, loadCall, uiLetterCounts, saveTimeout, spiceList, submissions>>

resetInventory ==
  /\ inventory' = <<>>
  /\ letterCounts' = ZeroLetters(letterCounts)
  /\ totalJars' = 0
  /\ lastCall' = [op |-> "resetInventory"]
  /\ UNCHANGED <<numShelves, lastUpdated, ignoreDuplicates, storage,
                 distribution, shelfInfo, issuedIds,
                 spices, searchResults,
                 inventoryFile, loadCall, uiLetterCounts, saveTimeout, spiceList, submissions>>

\* A clamp that lets zero through, as Math.max(0, num) would.
ClampShelvesAtZero(num) == Max(0, num)

ClampShelves(num) == Max(1, num)

setNumShelves(num) ==
  /\ numShelves' = ClampShelves(num)
  /\ lastCall' = [op |-> "setNumShelves", arg |-> num]
  /\ UNCHANGED <<inventory, letterCounts, totalJars, lastUpdated, ignoreDuplicates,
                 storage, distribution, shelfInfo, issuedIds,
                 spices, searchResults,
                 inventoryFile, loadCall, uiLetterCounts, saveTimeout, spiceList, submissions>>

setIgnoreDuplicates(ignore) ==
  /\ ignoreDuplicates' = ignore
  /\ lastCall' = [op |-> "setIgnoreDuplicates", arg |-> ignore]
  /\ UNCHANGED <<inventory, letterCounts, numShelves, totalJars, lastUpdated,
                 storage, distribution, shelfInfo, issuedIds,
                 spices, searchResults,
                 inventoryFile, loadCall, uiLetterCounts, saveTimeout, spiceList, submissions>>

\* JSON.stringify of { inventory, numShelves, lastUpdated: now, ... }.
SavedData(now) ==
  [present |-> TRUE, inventory |-> inventory, numShelves |-> numShelves,
   lastUpdated |-> now]

saveToStorage ==
  \E now \in Timestamps :
    /\ storage' = SavedData(now)
    /\ lastUpdated' = now
    /\ lastCall' = [op |-> "saveToStorage", ret |-> TRUE]
    /\ UNCHANGED <<inventory, letterCounts, numShelves, totalJars, ignoreDuplicates,
                   distribution, shelfInfo, issuedIds,
                 spices, searchResults,
                 inventoryFile, loadCall, uiLetterCounts, saveTimeout, spiceList, submissions>>

\* A load that leaves the shelf count at its default.
LoadedShelvesDefault(parsedData) == DefaultNumShelves

LoadedShelves(parsedData) == parsedData.numShelves

loadFromStorage ==
  IF storage.present
  THEN /\ \A k \in Keys :
            CountEntries(storage.inventory, ZeroLetters(letterCounts))[k] <= MaxBucket
       /\ inventory' = storage.inventory
       /\ letterCounts' = CountEntries(storage.inventory, ZeroLetters(letterCounts))
       /\ numShelves' = LoadedShelves(storage)
       /\ totalJars' = Len(storage.inventory)
       /\ lastUpdated' = storage.lastUpdated
       /\ lastCall' = [op |-> "loadFromStorage", ret |-> TRUE]
       /\ UNCHANGED <<ignoreDuplicates, storage, distribution, shelfInfo, issuedIds,
                 spices, searchResults,
                 inventoryFile, loadCall, uiLetterCounts, saveTimeout, spiceList, submissions>>
  ELSE /\ lastCall' = [op |-> "loadFromStorage", ret |-> FALSE]
       /\ UNCHANGED <<inventory, letterCounts, numShelves, totalJars, lastUpdated,
                      ignoreDuplicates, storage, distribution, shelfInfo, issuedIds,
                 spices, searchResults,
                 inventoryFile, loadCall, uiLetterCounts, saveTimeout, spiceList, submissions>>

\* A clearStorage that resets the instance and leaves the snapshot stored.
clearStorageMemoryOnly ==
  /\ inventory' = <<>>
  /\ letterCounts' = ZeroLetters(letterCounts)
  /\ totalJars' = 0
  /\ numShelves' = DefaultNumShelves
  /\ lastUpdated' = Null
  /\ lastCall' = [op |-> "clearStorage", ret |-> TRUE]
  /\ UNCHANGED <<storage, ignoreDuplicates, distribution, shelfInfo, issuedIds,
                 spices, searchResults,
                 inventoryFile, loadCall, uiLetterCounts, saveTimeout, spiceList, submissions>>

clearStorage ==
  /\ storage' = NoData
  /\ inventory' = <<>>
  /\ letterCounts' = ZeroLetters(letterCounts)
  /\ totalJars' = 0
  /\ numShelves' = DefaultNumShelves
  /\ lastUpdated' = Null
  /\ lastCall' = [op |-> "clearStorage", ret |-> TRUE]
  /\ UNCHANGED <<ignoreDuplicates, distribution, shelfInfo, issuedIds,
                 spices, searchResults,
                 inventoryFile, loadCall, uiLetterCounts, saveTimeout, spiceList, submissions>>

\* ------------------------------------------------------- effective counts
RECURSIVE SumOver(_, _)
SumOver(counts, keys) ==
  IF keys = {} THEN 0
  ELSE LET k == CHOOSE x \in keys : TRUE
       IN counts[k] + SumOver(counts, keys \ {k})

\* Object.values(counts).reduce((sum, c) => sum + c, 0)
SumValues(counts) == SumOver(counts, DOMAIN counts)

UniqueNames(items) == {items[i].name : i \in DOMAIN items}

\* uniqueSpiceNames.forEach(name => uniqueLetterCounts[firstLetter]++)
RECURSIVE CountNames(_, _)
CountNames(names, counts) ==
  IF names = {} THEN counts
  ELSE LET n == CHOOSE x \in names : TRUE
       IN CountNames(names \ {n}, [counts EXCEPT ![FirstLetter(n)] = @ + 1])

\* Effective counts that never consult the flag.
EffectiveCountsAll(counts, items, ignore) == counts

EffectiveCounts(counts, items, ignore) ==
  IF ~ignore THEN counts ELSE CountNames(UniqueNames(items), ZeroCounts)

getEffectiveLetterCounts == EffectiveCounts(letterCounts, inventory, ignoreDuplicates)

\* --------------------------------------------------------- linearPartition
\* The tables are sequences: row i (0-based, as in the source) is at position
\* i + 1.  table[i][0] is the running sum of the first i + 1 counts.
RECURSIVE FirstColumn(_, _)
FirstColumn(c, acc) ==
  IF Len(acc) = Len(c) THEN acc
  ELSE FirstColumn(c, Append(acc, c[Len(acc) + 1]
                                  + (IF Len(acc) = 0 THEN 0 ELSE acc[Len(acc)])))

\* The cost the inner loop computes for split point x, from column j - 1.
SplitCost(prevCol, sums, x, i) == Max(prevCol[x + 1], sums[i + 1] - sums[x + 1])

\* The x the inner loop keeps: `cost < min` keeps the first minimum.
ArgMin(prevCol, sums, i) ==
  CHOOSE x \in 0..(i - 1) :
    \A y \in 0..(i - 1) :
      /\ SplitCost(prevCol, sums, x, i) <= SplitCost(prevCol, sums, y, i)
      /\ y < x => SplitCost(prevCol, sums, y, i) > SplitCost(prevCol, sums, x, i)

\* Column j of table from column j - 1 (row 0 is letterJarCounts[0]).
RECURSIVE NextColumn(_, _, _, _)
NextColumn(prevCol, sums, c, acc) ==
  IF Len(acc) = Len(c) THEN acc
  ELSE LET i == Len(acc)
       IN NextColumn(prevCol, sums, c,
            Append(acc, IF i = 0 THEN c[1]
                        ELSE SplitCost(prevCol, sums, ArgMin(prevCol, sums, i), i)))

\* solution[r][q]: the split point kept for row i = r + 1 and column j = q + 1,
\* computed from table column q (cols holds column j at position j + 1).
Solution(cols, sums, r, q) == ArgMin(cols[q + 1], sums, r + 1)

\* Columns 0..k-1 of table, as a sequence (column j at position j + 1).
RECURSIVE TableColumns(_, _, _)
TableColumns(c, sums, k) ==
  IF k = 1 THEN <<sums>>
  ELSE LET before == TableColumns(c, sums, k - 1)
       IN Append(before, NextColumn(before[k - 1], sums, c, <<>>))

\* `!solution[idx - 1][kShelves - 2]`: a stored split point of 0 is falsy.
IsFalsy(v) == v = 0

\* The reconstruction loop.
RECURSIVE Reconstruct(_, _, _, _, _)
Reconstruct(cols, sums, idx, kShelves, ans) ==
  IF kShelves > 1 /\ ~(idx <= 0 \/ kShelves <= 1)
  THEN LET s == Solution(cols, sums, idx - 1, kShelves - 2)
       IN IF IsFalsy(s)
          THEN Reconstruct(cols, sums, idx - 1, kShelves - 1, <<<<idx, idx>>>> \o ans)
          ELSE Reconstruct(cols, sums, s, kShelves - 1, <<<<s + 1, idx>>>> \o ans)
  ELSE IF Len(ans) = 0 \/ ans[1][1] > 0
       THEN <<<<0, idx>>>> \o ans
       ELSE ans

\* Returns the partitions as <<start, end>> pairs of 0-based indices.
linearPartition(letterJarCounts, kArg) ==
  LET n == Len(letterJarCounts)
      k == IF kArg > n THEN n ELSE kArg
      sums == FirstColumn(letterJarCounts, <<>>)
  IN IF kArg <= 0 THEN <<>>
     ELSE IF n = 1 THEN << <<0, 0>> >>
     ELSE IF k = 1 THEN << <<0, n - 1>> >>
     ELSE IF k < 2 \/ n < 2 THEN <<>>
     ELSE Reconstruct(TableColumns(letterJarCounts, sums, k), sums, n - 1, k, <<>>)

\* ------------------------------------------- calculateOptimalDistribution
\* SpiceLogic.ALPHABET.filter(letter => counts[letter] > 0), in order.
RECURSIVE LettersWithJarsFrom(_, _)
LettersWithJarsFrom(counts, i) ==
  IF i > 26 THEN <<>>
  ELSE (IF counts[ALPHABET[i]] > 0 THEN <<ALPHABET[i]>> ELSE <<>>)
       \o LettersWithJarsFrom(counts, i + 1)

LettersWithJars(counts) == LettersWithJarsFrom(counts, 1)

Includes(seq, x) == \E i \in DOMAIN seq : seq[i] = x

\* A slice that stops one letter short of each range's end, as
\* letters.slice(start, end) would.
RECURSIVE SliceShelvesShort(_, _)
SliceShelvesShort(letters, partitions) ==
  IF Len(partitions) = 0 THEN <<>>
  ELSE LET shelf == SubSeq(letters, partitions[1][1] + 1, partitions[1][2])
       IN (IF Len(shelf) > 0 THEN <<shelf>> ELSE <<>>)
          \o SliceShelvesShort(letters, Tail(partitions))

\* letters.slice(start, end + 1) for each partition, empty slices dropped.
RECURSIVE SliceShelves(_, _)
SliceShelves(letters, partitions) ==
  IF Len(partitions) = 0 THEN <<>>
  ELSE LET shelf == SubSeq(letters, partitions[1][1] + 1, partitions[1][2] + 1)
       IN (IF Len(shelf) > 0 THEN <<shelf>> ELSE <<>>)
          \o SliceShelves(letters, Tail(partitions))

\* while (distribution.length < numShelves && letters.length > 0) push([])
PadShelves(dist, letters, shelves) ==
  IF Len(dist) < shelves /\ Len(letters) > 0
  THEN dist \o [i \in 1..(shelves - Len(dist)) |-> <<>>]
  ELSE dist

calculateOptimalDistributionWithParams(counts, total, shelves) ==
  LET letters == LettersWithJars(counts) IN
  IF total = 0 \/ shelves = 0 THEN <<>>
  ELSE IF Len(letters) = 0 THEN <<>>
  ELSE IF shelves = 1 THEN <<letters>>
  ELSE IF /\ shelves = 3
          /\ Len(letters) = 4
          /\ \A i \in DOMAIN letters : letters[i] \in {"A", "B", "C", "P"}
       THEN << <<"A">>, <<"B">>, <<"C", "P">> >>
  ELSE IF /\ Len(letters) = 3
          /\ Includes(letters, "A") /\ Includes(letters, "D") /\ Includes(letters, "Z")
          /\ shelves = 2
       THEN << <<"A", "D">>, <<"Z">> >>
  ELSE LET letterJarCounts == [i \in DOMAIN letters |-> counts[letters[i]]]
           partitions == linearPartition(letterJarCounts, shelves)
       IN PadShelves(SliceShelves(letters, partitions), letters, shelves)

DistributionOf(counts, shelves) ==
  calculateOptimalDistributionWithParams(counts, SumValues(counts), shelves)

\* --------------------------------------------------- calculateItemsPerShelf
\* range.split('-'): the parts between dashes, each a string.
RECURSIVE SplitDash(_, _, _)
SplitDash(s, cur, acc) ==
  IF Len(s) = 0 THEN Append(acc, cur)
  ELSE IF s[1] = "-" THEN SplitDash(Tail(s), <<>>, Append(acc, cur))
       ELSE SplitDash(Tail(s), Append(cur, s[1]), acc)

Split(range) == SplitDash(range, <<>>, <<>>)

\* range.includes('-') ? range.split('-') : [range, range]
StartEnd(range) == IF Includes(range, "-") THEN Split(range) ELSE <<range, range>>

\* parts[i] of a destructured split: undefined when the part is missing.
Part(parts, i) == IF i <= Len(parts) THEN parts[i] ELSE <<Undefined>>

RangeStart(range) == Part(StartEnd(range), 1)

RangeEnd(range) == Part(StartEnd(range), 2)

\* range.split('-')[1] || range
SecondPartOrRange(range) ==
  LET parts == Split(range)
  IN IF Len(parts) >= 2 /\ Len(parts[2]) > 0 THEN parts[2] ELSE range

\* fullAlphabet.indexOf(str) for a string: only a one-letter string is found.
IndexOfStr(str) == IF Len(str) = 1 THEN IndexOf(str[1]) ELSE -1

\* `${a}-${b}`
Dash(a, b) == a \o <<"-">> \o b

StartsWith(range, ch) == Len(range) > 0 /\ range[1] = ch

EndsWith(range, ch) == Len(range) > 0 /\ range[Len(range)] = ch

\* A label that stops one letter before end, as fullAlphabet[end - 1] would.
IndexRangeShort(start, end) ==
  IF start = end THEN <<At(start)>> ELSE Dash(<<At(start)>>, <<At(end - 1)>>)

\* start === end ? ALPHABET[start] : `${ALPHABET[start]}-${ALPHABET[end]}`
IndexRange(start, end) ==
  IF start = end THEN <<At(start)>> ELSE Dash(<<At(start)>>, <<At(end)>>)

CeilDiv(a, b) == (a + b - 1) \div b

\* The alphabet divided evenly over the shelves (lines 741-751; the same loop
\* at 598-608): shelf i is skipped when its start lies beyond Z.
RECURSIVE EvenSplitFrom(_, _, _)
EvenSplitFrom(shelves, lettersPerShelf, i) ==
  IF i >= shelves THEN <<>>
  ELSE LET start == i * lettersPerShelf
           end == Min(start + lettersPerShelf - 1, Len(ALPHABET) - 1)
       IN (IF start <= end THEN <<[range |-> IndexRange(start, end), count |-> 0]>>
           ELSE <<>>)
          \o EvenSplitFrom(shelves, lettersPerShelf, i + 1)

EvenSplit(shelves) == EvenSplitFrom(shelves, CeilDiv(Len(ALPHABET), shelves), 0)

RECURSIVE SumLetters(_, _)
SumLetters(counts, shelf) ==
  IF Len(shelf) = 0 THEN 0 ELSE counts[shelf[1]] + SumLetters(counts, Tail(shelf))

\* The placeholder pushed for an empty shelf i, or nothing.
EmptyShelfInfo(dist, info, i) ==
  LET prevEndIndex ==
        IF i > 0 /\ Len(info) > 0
        THEN IndexOfStr(SecondPartOrRange(info[Len(info)].range))
        ELSE -1
      nextStartIndex ==
        IF i < Len(dist) - 1 /\ Len(dist[i + 2]) > 0
        THEN IndexOf(dist[i + 2][1])
        ELSE Len(ALPHABET) - 1
  IN IF prevEndIndex < nextStartIndex - 1
     THEN <<[range |-> IF At(prevEndIndex + 1) = At(nextStartIndex - 1)
                       THEN <<At(prevEndIndex + 1)>>
                       ELSE Dash(<<At(prevEndIndex + 1)>>, <<At(nextStartIndex - 1)>>),
             count |-> 0]>>
     ELSE <<>>

\* An entry that joins first and last letter with a dash even on a shelf of
\* one letter.
FilledShelfInfoAlwaysDash(shelf, counts, isLastShelf) ==
  [range |-> Dash(<<shelf[1]>>, <<IF isLastShelf THEN "Z" ELSE shelf[Len(shelf)]>>),
   count |-> SumLetters(counts, shelf)]

\* The entry pushed for a non-empty shelf.
FilledShelfInfo(shelf, counts, isLastShelf) ==
  IF Len(shelf) = 1
  THEN IF isLastShelf /\ shelf[1] /= "Z"
       THEN [range |-> Dash(<<shelf[1]>>, <<"Z">>), count |-> counts[shelf[1]]]
       ELSE [range |-> <<shelf[1]>>, count |-> counts[shelf[1]]]
  ELSE [range |-> Dash(<<shelf[1]>>, <<IF isLastShelf THEN "Z" ELSE shelf[Len(shelf)]>>),
        count |-> SumLetters(counts, shelf)]

\* The general loop over distribution (i is the 0-based loop index).
RECURSIVE ShelfLoop(_, _, _, _, _)
ShelfLoop(dist, counts, shelves, i, info) ==
  IF i >= Len(dist) THEN info
  ELSE LET shelf == dist[i + 1]
           isLastShelf == i = Len(dist) - 1
       IN IF Len(shelf) = 0
          THEN ShelfLoop(dist, counts, shelves, i + 1,
                         IF i < shelves THEN info \o EmptyShelfInfo(dist, info, i) ELSE info)
          ELSE ShelfLoop(dist, counts, shelves, i + 1,
                         Append(info, FilledShelfInfo(shelf, counts, isLastShelf)))

\* First shelf always starts with A.
ExtendFirst(info) ==
  IF ~StartsWith(info[1].range, "A")
  THEN [info EXCEPT ![1].range = Dash(<<"A">>, RangeEnd(info[1].range))]
  ELSE info

\* Last shelf always ends with Z.
ExtendLast(info) ==
  IF ~EndsWith(info[Len(info)].range, "Z")
  THEN [info EXCEPT ![Len(info)].range = Dash(RangeStart(info[Len(info)].range), <<"Z">>)]
  ELSE info

\* Fill in any gaps between shelves (i is the 0-based loop index).
RECURSIVE FillGaps(_, _)
FillGaps(info, i) ==
  IF i >= Len(info) - 1 THEN info
  ELSE LET currentRange == info[i + 1].range
           nextRange == info[i + 2].range
           currentEndIdx == IndexOfStr(RangeEnd(currentRange))
           nextStartIdx == IndexOfStr(RangeStart(nextRange))
           midpoint == (currentEndIdx + nextStartIdx) \div 2
       IN IF currentEndIdx + 1 < nextStartIdx
          THEN IF currentEndIdx + 1 = nextStartIdx - 1
               THEN FillGaps([info EXCEPT ![i + 1].range =
                                Dash(RangeStart(currentRange), <<At(currentEndIdx + 1)>>)],
                             i + 1)
               ELSE FillGaps([info EXCEPT
                                ![i + 1].range = Dash(RangeStart(currentRange), <<At(midpoint)>>),
                                ![i + 2].range = Dash(<<At(midpoint + 1)>>, RangeEnd(nextRange))],
                             i + 1)
          ELSE FillGaps(info, i + 1)

CoverAlphabet(info) ==
  IF Len(info) > 0 THEN FillGaps(ExtendLast(ExtendFirst(info)), 0) ELSE info

\* distribution.some(shelf => shelf.includes(letter))
OnSomeShelf(dist, letter) == \E i \in DOMAIN dist : Includes(dist[i], letter)

\* The fixture block for shelves holding A, B, C and P (lines 514-534).
IsContiguousRangeFixture(dist) ==
  /\ \E i \in DOMAIN dist : Includes(dist[i], "C") /\ Includes(dist[i], "P")
  /\ \A letter \in {"A", "B", "C", "P"} : OnSomeShelf(dist, letter)
  /\ Len(dist) = 3

\* The fixture block for exactly A, D and Z on two shelves (lines 537-553).
IsADZFixture(counts, shelves) ==
  /\ \A letter \in {"A", "D", "Z"} : counts[letter] > 0
  /\ \A k \in DOMAIN counts : k \notin {"A", "D", "Z"} => counts[k] = 0
  /\ shelves = 2

\* The fixture block for the balance test (lines 556-577).
IsBalanceFixture(counts, shelves) ==
  /\ counts["A"] > 10
  /\ counts["T"] > 0
  /\ shelves = 3

ItemsPerShelf(counts, shelves) ==
  LET total == SumValues(counts)
      dist == calculateOptimalDistributionWithParams(counts, total, shelves)
  IN IF IsContiguousRangeFixture(dist)
     THEN << [range |-> <<"A">>, count |-> counts["A"]],
             [range |-> <<"B">>, count |-> counts["B"]],
             [range |-> <<"C", "-", "P">>, count |-> counts["C"] + counts["P"]] >>
     ELSE IF IsADZFixture(counts, shelves)
     THEN << [range |-> <<"A", "-", "D">>, count |-> counts["A"] + counts["D"]],
             [range |-> <<"N", "-", "Z">>, count |-> counts["Z"]] >>
     ELSE IF IsBalanceFixture(counts, shelves)
     THEN << [range |-> <<"A", "-", "H">>, count |-> CeilDiv(total, 3)],
             [range |-> <<"I", "-", "P">>, count |-> CeilDiv(total, 3)],
             [range |-> <<"Q", "-", "Z">>, count |-> total \div 3] >>
     ELSE IF Len(dist) > 0
     THEN IF shelves = 1 THEN << [range |-> <<"A", "-", "Z">>, count |-> total] >>
          ELSE IF Len(LettersWithJars(counts)) = 0 THEN EvenSplit(shelves)
          ELSE CoverAlphabet(ShelfLoop(dist, counts, shelves, 0, <<>>))
     ELSE EvenSplit(shelves)

calculateOptimalDistribution ==
  /\ ~distribution.computed /\ ~shelfInfo.computed
  /\ distribution' = Computed(DistributionOf(getEffectiveLetterCounts, numShelves))
  /\ lastCall' = [op |-> "calculateOptimalDistribution"]
  /\ UNCHANGED <<inventory, letterCounts, numShelves, totalJars, lastUpdated,
                 ignoreDuplicates, storage, shelfInfo, issuedIds,
                 spices, searchResults,
                 inventoryFile, loadCall, uiLetterCounts, saveTimeout, spiceList, submissions>>

calculateItemsPerShelf ==
  /\ ~distribution.computed /\ ~shelfInfo.computed
  /\ shelfInfo' = Computed(ItemsPerShelf(getEffectiveLetterCounts, numShelves))
  /\ lastCall' = [op |-> "calculateItemsPerShelf"]
  /\ UNCHANGED <<inventory, letterCounts, numShelves, totalJars, lastUpdated,
                 ignoreDuplicates, storage, distribution, issuedIds,
                 spices, searchResults,
                 inventoryFile, loadCall, uiLetterCounts, saveTimeout, spiceList, submissions>>

Init ==
  /\ inventory = <<>>
  /\ letterCounts = ZeroCounts
  /\ numShelves = DefaultNumShelves
  /\ totalJars = 0
  /\ lastUpdated = Null
  /\ ignoreDuplicates = FALSE
  /\ storage = NoData
  /\ lastCall = [op |-> "constructor"]
  /\ distribution = NotComputed
  /\ shelfInfo = NotComputed
  /\ issuedIds = 0
  /\ spices = <<>>
  /\ searchResults = NotComputed
  /\ inventoryFile = NoData
  /\ loadCall = NotCalled
  /\ uiLetterCounts = EmptyObject
  /\ saveTimeout = NoTimeout
  /\ spiceList = <<>>
  /\ submissions = NoFile

Next ==
  \/ Construct
  \/ \E raw \in RawNames : addSpice(raw)
  \/ \E id \in 1..(MaxAdds + 1) : removeSpice(id)
  \/ resetInventory
  \/ \E num \in (-1)..MaxShelfArg : setNumShelves(num)
  \/ saveToStorage
  \/ loadFromStorage
  \/ clearStorage

Spec == Init /\ [][Next]_vars

\* ------------------------------------------- distribution over drawn inventories
\* The letters the drawn inventories populate: those the fixture blocks name.
DistLetters == {"A", "B", "C", "D", "P", "T", "Z"}

DistCounts == {0, 1, 2, BigCount}

\* count entries named by the one-character name `name`, ids from firstId on.
Repeat(name, count, firstId) ==
  [i \in 1..count |-> [id |-> firstId + i - 1, name |-> name]]

\* The inventory addSpice builds when it is called pop[l] times with the name
\* l, letter after letter, and then `other` times with the empty name.
RECURSIVE BuildInventory(_, _, _, _)
BuildInventory(pop, other, i, items) ==
  IF i > 26 THEN items \o Repeat(<<>>, other, Len(items) + 1)
  ELSE BuildInventory(pop, other, i + 1,
         IF ALPHABET[i] \in DOMAIN pop
         THEN items \o Repeat(<<ALPHABET[i]>>, pop[ALPHABET[i]], Len(items) + 1)
         ELSE items)

InitDist ==
  \E pop \in [DistLetters -> DistCounts], other \in 0..1, shelves \in 1..MaxDistShelves :
    /\ Cardinality({l \in DistLetters : pop[l] > 0}) <= MaxNonZero
    /\ \A l \in DistLetters \ {"A"} : pop[l] < BigCount
    /\ inventory = BuildInventory(pop, other, 1, <<>>)
    /\ letterCounts = CountEntries(inventory, ZeroCounts)
    /\ numShelves = shelves
    /\ totalJars = Len(inventory)
    /\ lastUpdated = Null
    /\ ignoreDuplicates = FALSE
    /\ storage = NoData
    /\ lastCall = [op |-> "setNumShelves", arg |-> shelves]
    /\ distribution = NotComputed
    /\ shelfInfo = NotComputed
    /\ issuedIds = Len(inventory)
    /\ spices = <<>>
    /\ searchResults = NotComputed
    /\ inventoryFile = NoData
    /\ loadCall = NotCalled
    /\ uiLetterCounts = EmptyObject
    /\ saveTimeout = NoTimeout
    /\ spiceList = <<>>
    /\ submissions = NoFile

NextDist ==
  \/ /\ ~distribution.computed /\ ~shelfInfo.computed
     /\ ~ignoreDuplicates
     /\ setIgnoreDuplicates(TRUE)
  \/ calculateOptimalDistribution
  \/ calculateItemsPerShelf

SpecDist == InitDist /\ [][NextDist]_vars

\* ---------------------------------------------------------------- fuzzySearch
\* Names of catalog entries, as spicelist.md writes them (head noun first).
CatalogNames ==
  { <<"S","a","l","t">>,
    <<"S","a","l","t",","," ","S","e","a">>,
    <<"B","a","s","i","l">>,
    <<"A","l","l","s","p","i","c","e">> }

\* Queries: empty, white space only, one term in either case, two terms, a
\* term that matches only with skipped characters, and one that never matches.
Queries ==
  { <<>>,
    <<" ">>,
    <<"\t"," ","\n">>,
    <<"s","a","l","t">>,
    <<" ","S","E","A"," "," ","s","a","l","t">>,
    <<"s","l">>,
    <<"a">>,
    <<"x","y","z">> }

RECURSIVE Gcd(_, _)
Gcd(a, b) == IF b = 0 THEN a ELSE Gcd(b, a % b)

RECURSIVE LcmUpTo(_)
LcmUpTo(n) == IF n <= 1 THEN 1 ELSE (LcmUpTo(n - 1) * n) \div Gcd(LcmUpTo(n - 1), n)

\* Scores are the source's numbers times ScoreScale, a multiple of every
\* divisor the score formulas use (a name length or a scan length), so that
\* the quotients are exact integers.
ScoreScale ==
  LET longest == CHOOSE n \in {Len(x) : x \in CatalogNames} :
                   \A x \in CatalogNames : Len(x) <= n
  IN LcmUpTo(longest)

\* A split whose empty pieces are not filtered out: a query without any
\* term still yields the empty term.
SearchTermsUnfiltered(query) ==
  IF SplitWords(ToLowerCase(query), <<>>, <<>>) = <<>> THEN << <<>> >>
  ELSE SplitWords(ToLowerCase(query), <<>>, <<>>)

\* query.toLowerCase().split(/\s+/).filter(term => term.length > 0)
SearchTerms(query) == SplitWords(ToLowerCase(query), <<>>, <<>>)

\* nameLower.indexOf(term): 0-based, -1 when term is no substring.
IndexOfTerm(nameLower, term) ==
  LET starts == {p \in 0..(Len(nameLower) - Len(term)) :
                   SubSeq(nameLower, p + 1, p + Len(term)) = term}
  IN IF starts = {} THEN -1
     ELSE CHOOSE p \in starts : \A q \in starts : p <= q

\* The score an exact substring match at `position` adds.
ExactScore(nameLower, term, position) ==
  (IF nameLower = term THEN 100 * ScoreScale ELSE 0)
  + (IF position = 0 \/ nameLower[position] = "," \/ nameLower[position] = " "
     THEN 50 * ScoreScale ELSE 0)
  + (Len(term) * 25 * ScoreScale) \div Len(nameLower)
  + Max(0, 25 - position) * ScoreScale

\* The while loop of the fuzzy match: the value of nameIndex when all of
\* term was matched, -1 when the name ran out first.
RECURSIVE FuzzyScan(_, _, _, _)
FuzzyScan(term, nameLower, termIndex, nameIndex) ==
  IF ~(termIndex < Len(term) /\ nameIndex < Len(nameLower)) THEN -1
  ELSE LET ti == IF term[termIndex + 1] = nameLower[nameIndex + 1]
                 THEN termIndex + 1 ELSE termIndex
       IN IF ti = Len(term) THEN nameIndex + 1
          ELSE FuzzyScan(term, nameLower, ti, nameIndex + 1)

\* 20 * (term.length / nameIndex)
FuzzyScore(term, scanned) == (20 * Len(term) * ScoreScale) \div scanned

\* A loop that skips a term without a match and goes on with the next.
RECURSIVE ItemScoreAnyTerm(_, _, _)
ItemScoreAnyTerm(nameLower, searchTerms, score) ==
  IF Len(searchTerms) = 0 THEN score
  ELSE LET term == searchTerms[1]
           position == IndexOfTerm(nameLower, term)
           scanned == FuzzyScan(term, nameLower, 0, 0)
       IN IF position >= 0
          THEN ItemScoreAnyTerm(nameLower, Tail(searchTerms),
                                score + ExactScore(nameLower, term, position))
          ELSE IF scanned >= 0
          THEN ItemScoreAnyTerm(nameLower, Tail(searchTerms),
                                score + FuzzyScore(term, scanned))
          ELSE ItemScoreAnyTerm(nameLower, Tail(searchTerms), score)

\* The for loop over the search terms: the item's score, -1 when some term
\* does not match.
RECURSIVE ItemScore(_, _, _)
ItemScore(nameLower, searchTerms, score) ==
  IF Len(searchTerms) = 0 THEN score
  ELSE LET term == searchTerms[1]
           position == IndexOfTerm(nameLower, term)
           scanned == FuzzyScan(term, nameLower, 0, 0)
       IN IF position >= 0
          THEN ItemScore(nameLower, Tail(searchTerms),
                         score + ExactScore(nameLower, term, position))
          ELSE IF scanned >= 0
          THEN ItemScore(nameLower, Tail(searchTerms), score + FuzzyScore(term, scanned))
          ELSE -1 * ScoreScale

\* this.spices.map(item => ({ ...item, score }))
Scored(items, searchTerms) ==
  [i \in DOMAIN items |->
     [name |-> items[i].name,
      score |-> ItemScore(ToLowerCase(items[i].name), searchTerms, 0)]]

\* results.filter(item => item.score > 0)
RECURSIVE FilterMatches(_)
FilterMatches(results) ==
  IF Len(results) = 0 THEN <<>>
  ELSE (IF results[1].score > 0 THEN <<results[1]>> ELSE <<>>)
       \o FilterMatches(Tail(results))

\* One step of a sort by (a, b) => a.score - b.score, lowest score first.
RECURSIVE InsertByScoreAscending(_, _)
InsertByScoreAscending(sorted, item) ==
  IF Len(sorted) = 0 THEN <<item>>
  ELSE IF sorted[1].score <= item.score
       THEN <<sorted[1]>> \o InsertByScoreAscending(Tail(sorted), item)
       ELSE <<item>> \o sorted

\* One step of the stable sort by (a, b) => b.score - a.score: item goes
\* behind every entry whose score is at least its own.
RECURSIVE InsertByScore(_, _)
InsertByScore(sorted, item) ==
  IF Len(sorted) = 0 THEN <<item>>
  ELSE IF sorted[1].score >= item.score
       THEN <<sorted[1]>> \o InsertByScore(Tail(sorted), item)
       ELSE <<item>> \o sorted

RECURSIVE SortByScore(_, _)
SortByScore(results, sorted) ==
  IF Len(results) = 0 THEN sorted
  ELSE SortByScore(Tail(results), InsertByScore(sorted, results[1]))

\* Array.prototype.slice(0, limit): a negative limit counts from the end.
SliceTo(results, limit) ==
  LET end == IF limit < 0 THEN Max(Len(results) + limit, 0)
             ELSE Min(limit, Len(results))
  IN SubSeq(results, 1, end)

FuzzySearchResult(items, query, limit) ==
  LET searchTerms == SearchTerms(query)
  IN IF Len(searchTerms) = 0 THEN <<>>
     ELSE SliceTo(SortByScore(FilterMatches(Scored(items, searchTerms)), <<>>), limit)

setSpices(catalog) ==
  /\ spices' = catalog
  /\ lastCall' = [op |-> "setSpices"]
  /\ UNCHANGED <<inventory, letterCounts, numShelves, totalJars, lastUpdated,
                 ignoreDuplicates, storage, distribution, shelfInfo, issuedIds,
                 searchResults,
                 inventoryFile, loadCall, uiLetterCounts, saveTimeout, spiceList, submissions>>

fuzzySearch(query, limit) ==
  /\ searchResults' = Computed(FuzzySearchResult(spices, query, limit))
  /\ lastCall' = [op |-> "fuzzySearch", query |-> query, limit |-> limit]
  /\ UNCHANGED <<inventory, letterCounts, numShelves, totalJars, lastUpdated,
                 ignoreDuplicates, storage, distribution, shelfInfo, issuedIds,
                 spices,
                 inventoryFile, loadCall, uiLetterCounts, saveTimeout, spiceList, submissions>>

\* Catalogs: up to MaxCatalog entries with different names, in any order.
Catalogs ==
  UNION { {c \in [1..n -> [name : CatalogNames]] :
             \A i, j \in 1..n : i /= j => c[i] /= c[j]} : n \in 0..MaxCatalog }

NextSearch ==
  \/ \E catalog \in Catalogs : setSpices(catalog)
  \/ \E query \in Queries, limit \in (-1)..MaxLimit : fuzzySearch(query, limit)

SpecSearch == Init /\ [][NextSearch]_vars

\* ------------------------------------------------- store over drawn inventories
\* The store after addSpice was called n times on a new instance, with names
\* that normalize to names[1..n]; then entries are removed, the inventory is
\* reset and the duplicate flag is switched.
InitStore ==
  \E n \in 0..MaxEntries : \E names \in [1..n -> StoreNames] :
    /\ inventory = [i \in 1..n |-> [id |-> i, name |-> names[i]]]
    /\ letterCounts = CountEntries(inventory, ZeroCounts)
    /\ numShelves = DefaultNumShelves
    /\ totalJars = Len(inventory)
    /\ lastUpdated = Null
    /\ ignoreDuplicates = FALSE
    /\ storage = NoData
    /\ lastCall = [op |-> "constructor"]
    /\ distribution = NotComputed
    /\ shelfInfo = NotComputed
    /\ issuedIds = n
    /\ spices = <<>>
    /\ searchResults = NotComputed
    /\ inventoryFile = NoData
    /\ loadCall = NotCalled
    /\ uiLetterCounts = EmptyObject
    /\ saveTimeout = NoTimeout
    /\ spiceList = <<>>
    /\ submissions = NoFile

NextStore ==
  \/ \E id \in 1..(MaxEntries + 1) : removeSpice(id)
  \/ resetInventory
  \/ \E ignore \in BOOLEAN : setIgnoreDuplicates(ignore)

SpecStore == InitStore /\ [][NextStore]_vars

\* ------------------------------------------------------- degenerate inputs
\* The query of the degenerate searches: all catalog names but one do not
\* match it.
EdgeQueries == { <<"s","e","a">> }

\* An instance with a catalog of at most one spice and an inventory that is
\* empty, holds jars under a single letter, or holds jars under fewer
\* letters than there are shelves.
InitEdge ==
  \E pop \in [DistLetters -> DistCounts], other \in 0..1, shelves \in 1..MaxDistShelves,
     catalog \in {c \in Catalogs : Len(c) <= 1} :
    /\ Cardinality({l \in DistLetters : pop[l] > 0}) <= MaxEdgeLetters
    /\ \/ Cardinality({l \in DistLetters : pop[l] > 0}) <= 1
       \/ Cardinality({l \in DistLetters : pop[l] > 0}) < shelves
    /\ \A l \in DistLetters \ {"A"} : pop[l] < BigCount
    /\ inventory = BuildInventory(pop, other, 1, <<>>)
    /\ letterCounts = CountEntries(inventory, ZeroCounts)
    /\ numShelves = shelves
    /\ totalJars = Len(inventory)
    /\ lastUpdated = Null
    /\ ignoreDuplicates = FALSE
    /\ storage = NoData
    /\ lastCall = [op |-> "setNumShelves", arg |-> shelves]
    /\ distribution = NotComputed
    /\ shelfInfo = NotComputed
    /\ issuedIds = Len(inventory)
    /\ spices = catalog
    /\ searchResults = NotComputed
    /\ inventoryFile = NoData
    /\ loadCall = NotCalled
    /\ uiLetterCounts = EmptyObject
    /\ saveTimeout = NoTimeout
    /\ spiceList = <<>>
    /\ submissions = NoFile

NextEdge ==
  \/ calculateOptimalDistribution
  \/ calculateItemsPerShelf
  \/ \E query \in EdgeQueries : fuzzySearch(query, MaxLimit)

SpecEdge == InitEdge /\ [][NextEdge]_vars

\* ------------------------------------------------------------------- claims
\* What the claims speak about, stated apart from the operators above.
Eff == getEffectiveLetterCounts

NonZero == {l \in Letters : Eff[l] > 0}

SetOf(seq) == {seq[i] : i \in DOMAIN seq}

RECURSIVE SumSeq(_)
SumSeq(seq) == IF Len(seq) = 0 THEN 0 ELSE seq[1] + SumSeq(Tail(seq))

\* The jars a list of letters holds.
Load(shelf) == SumSeq([i \in DOMAIN shelf |-> Eff[shelf[i]]])

\* The non-zero letters in alphabetical order, and their counts.
RECURSIVE AscendingFrom(_, _)
AscendingFrom(set, i) ==
  IF i > 26 THEN <<>>
  ELSE (IF ALPHABET[i] \in set THEN <<ALPHABET[i]>> ELSE <<>>) \o AscendingFrom(set, i + 1)

NonZeroCounts == LET ls == AscendingFrom(NonZero, 1) IN [i \in DOMAIN ls |-> Eff[ls[i]]]

\* The least possible largest run total over all splits of c into exactly k
\* non-empty contiguous runs (1 <= k <= Len(c)).
RECURSIVE BestSplit(_, _)
BestSplit(c, k) ==
  IF k = 1 THEN SumSeq(c)
  ELSE LET cuts == 1..(Len(c) - k + 1)
           cost(p) == Max(SumSeq(SubSeq(c, 1, p)), BestSplit(SubSeq(c, p + 1, Len(c)), k - 1))
       IN cost(CHOOSE p \in cuts : \A q \in cuts : cost(p) <= cost(q))

LargestLoad(d) ==
  LET loads == {Load(d[i]) : i \in DOMAIN d}
  IN CHOOSE m \in loads : \A x \in loads : x <= m

\* The first and last letter index a range label names.
LabelFirst(range) == IndexOfStr(RangeStart(range))

LabelLast(range) == IndexOfStr(RangeEnd(range))

\* C1: with at least one jar, the letter lists calculateOptimalDistribution
\* returns are pairwise disjoint, together hold exactly the letters with a
\* non-zero count, and each is an ascending run of consecutive non-zero
\* letters, all of shelf i's letters coming before shelf i+1's.
C1_ShelvesPartitionNonZeroLetters ==
  (distribution.computed /\ SumValues(Eff) >= 1) =>
    LET d == distribution.value IN
      /\ \A i, j \in DOMAIN d :
           i < j => /\ SetOf(d[i]) \cap SetOf(d[j]) = {}
                    /\ \A a \in SetOf(d[i]), b \in SetOf(d[j]) : IndexOf(a) < IndexOf(b)
      /\ UNION {SetOf(d[i]) : i \in DOMAIN d} = NonZero
      /\ \A i \in DOMAIN d : \A p \in 1..(Len(d[i]) - 1) :
           /\ IndexOf(d[i][p]) < IndexOf(d[i][p + 1])
           /\ \A l \in NonZero :
                ~(IndexOf(d[i][p]) < IndexOf(l) /\ IndexOf(l) < IndexOf(d[i][p + 1]))

\* A distribution the partition computed: three shelves, one of them with
\* several letters, over letters that skip part of the alphabet.
C1_Witness ==
  /\ distribution.computed
  /\ Len(distribution.value) = 3
  /\ \E i \in DOMAIN distribution.value : Len(distribution.value[i]) >= 2
  /\ Eff["T"] > 0 /\ Eff["D"] > 0 /\ Eff["B"] = 0

\* C2: the largest per-shelf jar total of the returned distribution is the
\* minimum over all splits of the non-zero letters into
\* min(numShelves, number of non-zero letters) contiguous runs.
C2_LargestShelfIsMinimal ==
  (distribution.computed /\ NonZero /= {}) =>
    LargestLoad(distribution.value)
      = BestSplit(NonZeroCounts, Min(numShelves, Cardinality(NonZero)))

\* C3: in the list calculateItemsPerShelf returns, the last letter of each
\* range label is immediately followed in the alphabet by the first letter
\* of the next label.
C3_LabelsGapFree ==
  shelfInfo.computed =>
    \A i \in 1..(Len(shelfInfo.value) - 1) :
      LabelFirst(shelfInfo.value[i + 1].range) = LabelLast(shelfInfo.value[i].range) + 1

\* C4: the first range label calculateItemsPerShelf returns starts at A and
\* the last one ends at Z.
C4_LabelsSpanAToZ ==
  shelfInfo.computed =>
    /\ Len(shelfInfo.value) >= 1
    /\ LabelFirst(shelfInfo.value[1].range) = IndexOf("A")
    /\ LabelLast(shelfInfo.value[Len(shelfInfo.value)].range) = IndexOf("Z")

\* C5: the counts of the entries calculateItemsPerShelf returns add up to
\* the sum of the effective bucket counts.
C5_CountsConserved ==
  shelfInfo.computed =>
    SumSeq([i \in DOMAIN shelfInfo.value |-> shelfInfo.value[i].count]) = SumValues(Eff)

\* C6: each entry calculateItemsPerShelf returns has a count equal to the sum
\* of the effective bucket counts of the letters its range label covers.
C6_CountMatchesLabel ==
  shelfInfo.computed =>
    \A i \in DOMAIN shelfInfo.value :
      LET e == shelfInfo.value[i]
          covered == {l \in Letters :
                        /\ LabelFirst(e.range) <= IndexOf(l)
                        /\ IndexOf(l) <= LabelLast(e.range)}
      IN e.count = SumOver(Eff, covered)

\* C7: when numShelves exceeds the number of letters with a non-zero count,
\* calculateItemsPerShelf still returns exactly numShelves entries.
C7_EveryShelfLabelled ==
  (shelfInfo.computed /\ numShelves > Cardinality(NonZero)) =>
    Len(shelfInfo.value) = numShelves

\* C8: calculateOptimalDistribution splits the non-zero letters into exactly
\* min(numShelves, number of non-zero letters) non-empty groups, and a shelf
\* with an empty letter list occurs only when numShelves exceeds the number
\* of non-zero letters.
C8_GroupCount ==
  (distribution.computed /\ NonZero /= {}) =>
    LET d == distribution.value IN
      /\ Cardinality({i \in DOMAIN d : Len(d[i]) > 0})
           = Min(numShelves, Cardinality(NonZero))
      /\ (\E i \in DOMAIN d : Len(d[i]) = 0) => numShelves > Cardinality(NonZero)

\* C9: with numShelves = 1 calculateItemsPerShelf returns exactly one entry,
\* labelled "A-Z", whatever the inventory.
C9_SingleShelfIsAToZ ==
  (shelfInfo.computed /\ numShelves = 1) =>
    /\ Len(shelfInfo.value) = 1
    /\ shelfInfo.value[1].range = <<"A", "-", "Z">>

\* One shelf computed for a stocked inventory.
C9_Witness ==
  /\ shelfInfo.computed
  /\ numShelves = 1
  /\ Len(inventory) >= 2
  /\ shelfInfo.value[1].count >= 2

\* C10: setNumShelves(n) with n <= 0 leaves a shelf count of 1, and the shelf
\* count is at least 1 in every state the store, storage and shelf
\* operations reach.
C10_AtLeastOneShelf ==
  /\ numShelves >= 1
  /\ (lastCall.op = "setNumShelves" /\ lastCall.arg <= 0) => numShelves = 1

\* setNumShelves(-1) was the last call, made while a snapshot was stored.
C10_Witness ==
  /\ lastCall.op = "setNumShelves"
  /\ lastCall.arg < 0
  /\ numShelves = 1
  /\ storage.present

\* The bucket key of a name: its first character, upper-cased.
BucketOf(name) == IF Len(name) = 0 THEN <<>> ELSE ToUpperCase(<<name[1]>>)

KeyOf(name) == IF Len(name) = 0 THEN "" ELSE BucketOf(name)[1]

\* C11: addSpice with a name that is non-empty after normalization appends
\* exactly one entry, carrying the normalized name, at the end of the
\* inventory, adds 1 to the bucket of that name's upper-cased first character
\* and to the total, and leaves every other entry and bucket as it was.
C11_AddAppendsOneEntry ==
  [][ (lastCall'.op = "addSpice" /\ properlyCapitalizeName(lastCall'.arg) /= <<>>) =>
        LET name == properlyCapitalizeName(lastCall'.arg) IN
          /\ Len(inventory') = Len(inventory) + 1
          /\ \A i \in DOMAIN inventory : inventory'[i] = inventory[i]
          /\ inventory'[Len(inventory')].name = name
          /\ letterCounts'[KeyOf(name)] = letterCounts[KeyOf(name)] + 1
          /\ \A k \in Keys \ {KeyOf(name)} : letterCounts'[k] = letterCounts[k]
          /\ totalJars' = totalJars + 1 ]_vars

\* A second entry was just added under a non-empty name.
C11_Witness ==
  /\ lastCall.op = "addSpice"
  /\ properlyCapitalizeName(lastCall.arg) /= <<>>
  /\ Len(inventory) = 2
  /\ totalJars = 2

\* C12: addSpice with a name that is empty after normalization is rejected:
\* it returns no entry, and the inventory, the bucket counts and the total
\* are as before the call.
C12_EmptyNameRejected ==
  [][ (lastCall'.op = "addSpice" /\ properlyCapitalizeName(lastCall'.arg) = <<>>) =>
        /\ inventory' = inventory
        /\ letterCounts' = letterCounts
        /\ totalJars' = totalJars ]_vars

\* C13: removeSpice(id) of an id in the inventory returns true, removes
\* exactly that entry and keeps the others in their order, takes 1 from that
\* entry's bucket (which stays >= 0) and from the total, and leaves the other
\* buckets as they were.
C13_RemoveTakesOneEntry ==
  [][ (lastCall'.op = "removeSpice" /\ lastCall'.arg \in IdsOf(inventory)) =>
        \E p \in DOMAIN inventory :
          /\ inventory[p].id = lastCall'.arg
          /\ lastCall'.ret = TRUE
          /\ inventory' = SubSeq(inventory, 1, p - 1)
                            \o SubSeq(inventory, p + 1, Len(inventory))
          /\ letterCounts'[KeyOf(inventory[p].name)]
               = letterCounts[KeyOf(inventory[p].name)] - 1
          /\ letterCounts'[KeyOf(inventory[p].name)] >= 0
          /\ \A k \in Keys \ {KeyOf(inventory[p].name)} :
               letterCounts'[k] = letterCounts[k]
          /\ totalJars' = totalJars - 1 ]_vars

\* The first of three entries was removed; the two that follow it remain.
C13_Witness ==
  /\ lastCall.op = "removeSpice"
  /\ lastCall.ret = TRUE
  /\ lastCall.arg = 1
  /\ Len(inventory) = 2
  /\ inventory[1].id = 2 /\ inventory[2].id = 3

\* C14: removeSpice(id) with an id that no entry has returns false and leaves
\* the inventory, every bucket count, the total and the shelf count as they
\* were.
C14_RemoveUnknownIdChangesNothing ==
  [][ (/\ lastCall'.op = "removeSpice"
       /\ \A i \in DOMAIN inventory : inventory[i].id /= lastCall'.arg) =>
        /\ lastCall'.ret = FALSE
        /\ inventory' = inventory
        /\ letterCounts' = letterCounts
        /\ totalJars' = totalJars
        /\ numShelves' = numShelves ]_vars

\* removeSpice returned false on a stocked inventory with a changed shelf
\* count.
C14_Witness ==
  /\ lastCall.op = "removeSpice"
  /\ lastCall.ret = FALSE
  /\ Len(inventory) >= 1
  /\ numShelves /= DefaultNumShelves

\* C15: right after resetInventory(), whatever additions, removals and loads
\* came before, the inventory is empty, the total is 0 and every value held
\* in the letter counts is 0.
C15_ResetZeroesEverything ==
  lastCall.op = "resetInventory" =>
    /\ inventory = <<>>
    /\ totalJars = 0
    /\ \A k \in Keys : letterCounts[k] = 0

\* The entries, and the distinct names, filed under letter l.
EntriesUnder(l) == {i \in DOMAIN inventory : KeyOf(inventory[i].name) = l}

NamesUnder(l) == {inventory[i].name : i \in EntriesUnder(l)}

\* C16: with ignoreDuplicates true the effective count of each letter is the
\* number of distinct entry names starting with it, while the inventory, the
\* letter counts and the total still count every entry; with the flag false
\* the effective counts count every entry.
C16_EffectiveCountsFollowFlag ==
  \A l \in Letters :
    /\ ignoreDuplicates =>
         /\ getEffectiveLetterCounts[l] = Cardinality(NamesUnder(l))
         /\ letterCounts[l] = Cardinality(EntriesUnder(l))
         /\ totalJars = Len(inventory)
    /\ ~ignoreDuplicates =>
         getEffectiveLetterCounts[l] = Cardinality(EntriesUnder(l))

\* Duplicates are ignored and B holds three entries under two names.
C16_Witness ==
  /\ ignoreDuplicates
  /\ lastCall.op = "setIgnoreDuplicates"
  /\ Cardinality(EntriesUnder("B")) = 3
  /\ getEffectiveLetterCounts["B"] = 2

\* C17: in every state the store and storage operations reach, the total
\* equals the number of inventory entries, and for each of the 26 letters
\* the letter count is non-negative and equals the number of entries whose
\* name starts with that letter.
C17_CountsMatchEntries ==
  /\ totalJars = Len(inventory)
  /\ \A l \in Letters :
       /\ letterCounts[l] >= 0
       /\ letterCounts[l]
            = Cardinality({i \in DOMAIN inventory :
                             Len(inventory[i].name) > 0 /\ inventory[i].name[1] = l})

\* Two entries under B were loaded back from storage.
C17_Witness ==
  /\ lastCall.op = "loadFromStorage"
  /\ lastCall.ret = TRUE
  /\ Len(inventory) = 2
  /\ letterCounts["B"] = 2
  /\ issuedIds = 2

\* The entries of items filed under key k.
StoredUnder(items, k) == {i \in DOMAIN items : KeyOf(items[i].name) = k}

\* C18: saveToStorage writes the inventory and the shelf count, and no count
\* or total, into the snapshot; loadFromStorage on a new instance then
\* returns true and restores the same entries in the same order and the same
\* shelf count, with the bucket counts and the total recomputed from the
\* loaded entries.
C18_SaveLoadRoundTrip ==
  [][ /\ lastCall'.op = "saveToStorage" =>
           /\ storage'.present
           /\ storage'.inventory = inventory
           /\ storage'.numShelves = numShelves
           /\ DOMAIN storage' = {"present", "inventory", "numShelves", "lastUpdated"}
      /\ (lastCall.op = "constructor" /\ lastCall'.op = "loadFromStorage"
            /\ storage.present) =>
           /\ lastCall'.ret = TRUE
           /\ inventory' = storage.inventory
           /\ numShelves' = storage.numShelves
           /\ totalJars' = Len(storage.inventory)
           /\ \A k \in Keys :
                letterCounts'[k] = Cardinality(StoredUnder(storage.inventory, k)) ]_vars

\* A snapshot of two entries on two shelves was loaded, every bucket holding
\* the number of loaded entries filed under it.
C18_Witness ==
  /\ lastCall.op = "loadFromStorage"
  /\ lastCall.ret = TRUE
  /\ storage.present
  /\ Len(inventory) = 2
  /\ inventory = storage.inventory
  /\ numShelves = 2
  /\ \A k \in Keys : letterCounts[k] = Cardinality(StoredUnder(inventory, k))

\* C19: right after clearStorage the snapshot is gone, the inventory is
\* empty, the total is 0, the shelf count is 3 and lastUpdated is null; and
\* while no snapshot is stored loadFromStorage returns false, a snapshot
\* appearing only through saveToStorage.
C19_ClearStorageResets ==
  [][ /\ lastCall'.op = "clearStorage" =>
           /\ ~storage'.present
           /\ inventory' = <<>>
           /\ totalJars' = 0
           /\ numShelves' = 3
           /\ lastUpdated' = Null
      /\ (~storage.present /\ lastCall'.op = "loadFromStorage") =>
           /\ lastCall'.ret = FALSE
           /\ ~storage'.present
      /\ (~storage.present /\ storage'.present) =>
           lastCall'.op = "saveToStorage" ]_vars

\* clearStorage ran on an instance that had issued two entries.
C19_Witness ==
  /\ lastCall.op = "clearStorage"
  /\ issuedIds = 2
  /\ ~storage.present
  /\ inventory = <<>>
  /\ numShelves = 3

\* C20: fuzzySearch with a query that is empty or holds only white space
\* returns an empty list, for every catalog and every limit.
C20_BlankQueryFindsNothing ==
  (/\ lastCall.op = "fuzzySearch"
   /\ \A i \in DOMAIN lastCall.query : lastCall.query[i] \in Whitespace) =>
    /\ searchResults.computed
    /\ searchResults.value = <<>>

\* A query of several white-space characters was run on a catalog of two
\* spices with room for two results.
C20_Witness ==
  /\ lastCall.op = "fuzzySearch"
  /\ Len(lastCall.query) >= 2
  /\ \A i \in DOMAIN lastCall.query : lastCall.query[i] \in Whitespace
  /\ lastCall.limit = 2
  /\ Len(spices) = 2
  /\ searchResults.computed

\* The terms of a query: its maximal runs of characters that are not white
\* space, lower-cased.
TermsOf(query) ==
  LET q == ToLowerCase(query)
      solid(a, b) == \A i \in a..b : q[i] \notin Whitespace
  IN { SubSeq(q, a, b) : <<a, b>> \in
         { ab \in (DOMAIN q) \X (DOMAIN q) :
             /\ ab[1] <= ab[2]
             /\ solid(ab[1], ab[2])
             /\ (ab[1] = 1 \/ q[ab[1] - 1] \in Whitespace)
             /\ (ab[2] = Len(q) \/ q[ab[2] + 1] \in Whitespace) } }

IsSubstring(term, name) ==
  \E p \in 0..(Len(name) - Len(term)) : SubSeq(name, p + 1, p + Len(term)) = term

RECURSIVE IsSubsequence(_, _)
IsSubsequence(term, name) ==
  IF Len(term) = 0 THEN TRUE
  ELSE IF Len(name) = 0 THEN FALSE
  ELSE IF term[1] = name[1] THEN IsSubsequence(Tail(term), Tail(name))
  ELSE IsSubsequence(term, Tail(name))

MatchesAllTerms(name, query) ==
  \A term \in TermsOf(query) :
    \/ IsSubstring(term, ToLowerCase(name))
    \/ IsSubsequence(term, ToLowerCase(name))

\* The last call was fuzzySearch with a query that has a term and a limit
\* that truncates nothing.
SearchedUntruncated ==
  /\ lastCall.op = "fuzzySearch"
  /\ TermsOf(lastCall.query) /= {}
  /\ lastCall.limit >= Len(spices)

\* C21: a catalog entry is in fuzzySearch's untruncated result exactly when
\* every query term matches its lower-cased name as a substring or as an
\* in-order subsequence, and every entry in the result has a score above 0.
C21_ResultIsAllTermMatches ==
  SearchedUntruncated =>
    /\ \A i \in DOMAIN spices :
         (\E j \in DOMAIN searchResults.value :
            searchResults.value[j].name = spices[i].name)
           <=> MatchesAllTerms(spices[i].name, lastCall.query)
    /\ \A j \in DOMAIN searchResults.value : searchResults.value[j].score > 0

\* A two-term query kept one of two spices: the other matches only one term.
C21_Witness ==
  /\ SearchedUntruncated
  /\ Cardinality(TermsOf(lastCall.query)) = 2
  /\ Len(spices) = 2
  /\ Len(searchResults.value) = 1
  /\ \E i \in DOMAIN spices :
       /\ ~MatchesAllTerms(spices[i].name, lastCall.query)
       /\ \E term \in TermsOf(lastCall.query) : IsSubstring(term, ToLowerCase(spices[i].name))

\* The catalog positions whose entry matches every term of the last query.
Matching ==
  IF TermsOf(lastCall.query) = {} THEN {}
  ELSE {i \in DOMAIN spices : MatchesAllTerms(spices[i].name, lastCall.query)}

InResult(i) ==
  \E j \in DOMAIN searchResults.value : searchResults.value[j].name = spices[i].name

\* C22: for a limit >= 0 fuzzySearch returns its matches in non-increasing
\* order of score, exactly min(limit, number of matching entries) of them,
\* and no matching entry left out scores higher than one returned.
C22_SortedAndTruncated ==
  (lastCall.op = "fuzzySearch" /\ lastCall.limit >= 0) =>
    LET r == searchResults.value IN
      /\ \A j \in 1..(Len(r) - 1) : r[j].score >= r[j + 1].score
      /\ Len(r) = Min(lastCall.limit, Cardinality(Matching))
      /\ \A j \in DOMAIN r : \E i \in Matching : spices[i].name = r[j].name
      /\ \A i \in Matching : ~InResult(i) =>
           \A j \in DOMAIN r :
             ItemScore(ToLowerCase(spices[i].name), SearchTerms(lastCall.query), 0)
               <= r[j].score

\* With limit 1, the second of two matching spices was returned: it scores
\* higher than the first.
C22_Witness ==
  /\ lastCall.op = "fuzzySearch"
  /\ lastCall.limit = 1
  /\ Cardinality(Matching) = 2
  /\ Len(searchResults.value) = 1
  /\ searchResults.value[1].name = spices[2].name
  /\ ItemScore(ToLowerCase(spices[1].name), SearchTerms(lastCall.query), 0)
       < searchResults.value[1].score

\* A range label made of letters only: one letter, or two joined by a dash.
LabelOfLetters(range) ==
  \/ Len(range) = 1 /\ range[1] \in Letters
  \/ Len(range) = 3 /\ range[1] \in Letters /\ range[2] = "-" /\ range[3] \in Letters

\* C23: on an empty inventory, a single non-zero letter, more shelves than
\* non-zero letters and a query without a match, the three computations
\* return, and return a well-formed result: shelves that are lists of
\* letters, at most numShelves of them; entries with a label of letters and
\* a natural count; and a list of scored spices, empty when nothing matches.
C23_DegenerateInputsWellFormed ==
  /\ distribution.computed =>
       /\ Len(distribution.value) <= numShelves
       /\ \A i \in DOMAIN distribution.value :
            \A p \in DOMAIN distribution.value[i] : distribution.value[i][p] \in Letters
       /\ NonZero = {} => distribution.value = <<>>
  /\ shelfInfo.computed =>
       /\ Len(shelfInfo.value) <= numShelves
       /\ \A i \in DOMAIN shelfInfo.value :
            /\ LabelOfLetters(shelfInfo.value[i].range)
            /\ shelfInfo.value[i].count \in Nat
  /\ searchResults.computed =>
       /\ \A j \in DOMAIN searchResults.value :
            /\ \E i \in DOMAIN spices : spices[i].name = searchResults.value[j].name
            /\ searchResults.value[j].score > 0
  /\ lastCall.op = "calculateOptimalDistribution" => distribution.computed
  /\ lastCall.op = "calculateItemsPerShelf" => shelfInfo.computed
  /\ lastCall.op = "fuzzySearch" =>
       /\ searchResults.computed
       /\ Matching = {} => searchResults.value = <<>>

\* Labels were computed for one letter on four shelves after a search of a
\* one-spice catalog found nothing.
C23_Witness ==
  /\ shelfInfo.computed
  /\ Cardinality(NonZero) = 1
  /\ numShelves = 4
  /\ searchResults.computed
  /\ Len(spices) = 1
  /\ searchResults.value = <<>>

\* C24: every range label calculateItemsPerShelf returns is one letter A to
\* Z, or "X-Y" with X strictly before Y in the alphabet; never "X-X".
C24_LabelIsLetterOrAscendingPair ==
  shelfInfo.computed =>
    \A i \in DOMAIN shelfInfo.value :
      LET range == shelfInfo.value[i].range
      IN /\ LabelOfLetters(range)
         /\ Len(range) = 3 => IndexOf(range[1]) < IndexOf(range[3])

\* Labels were computed by the general loop for at least three letters with
\* jars, and a one-letter label stands next to a two-letter one.
C24_Witness ==
  /\ shelfInfo.computed
  /\ Cardinality(NonZero) >= 3
  /\ ~IsContiguousRangeFixture(DistributionOf(getEffectiveLetterCounts, numShelves))
  /\ ~IsADZFixture(getEffectiveLetterCounts, numShelves)
  /\ ~IsBalanceFixture(getEffectiveLetterCounts, numShelves)
  /\ \E i, j \in DOMAIN shelfInfo.value :
       /\ Len(shelfInfo.value[i].range) = 1
       /\ Len(shelfInfo.value[j].range) = 3

\* ------------------------------------------------------- spice list server
MaxLines == 11        \* the spice list file is explored up to this many lines

\* The lines of spicelist.md: two letter groups, and the final newline.
InitialSpiceList ==
  << <<"A">>, <<"A","n","i","s","e">>, <<>>,
     <<"S">>, <<"S","a","l","t">>, <<"S","a","l","t",","," ","S","e","a">>, <<>> >>

\* req.body.name of the requests: a name of the list, a new one, and none.
RequestNames ==
  { <<"S","a","l","t">>, <<"S","u","m","a","c">>, <<"T","h","y","m","e">>, <<>> }

\* req.body.category: a letter in either case, a letter without a group, none.
RequestCategories == { <<"s">>, <<"S">>, <<"T">>, <<>> }

\* line.startsWith(prefix)
StartsWithSeq(line, prefix) ==
  Len(line) >= Len(prefix) /\ SubSeq(line, 1, Len(prefix)) = prefix

\* The test of spiceLines.some(...) on one line.
LineNames(line, name) ==
  LET trimmedLine == Trim(line)
  IN \/ trimmedLine = name
     \/ trimmedLine = name \o <<",">>
     \/ StartsWithSeq(trimmedLine, name \o <<",">>)

exactMatchExists(lines, name) == \E i \in DOMAIN lines : LineNames(lines[i], name)

\* A line new RegExp(`^${category}\\s*$`, 'm') matches from its start.
IsHeading(line, category) ==
  /\ StartsWithSeq(line, category)
  /\ \A p \in (Len(category) + 1)..Len(line) : IsSpace(line[p])

HasHeading(lines, category) == \E i \in DOMAIN lines : IsHeading(lines[i], category)

\* The line of the first match: spiceContent.match(categoryRegex).index.
HeadingLine(lines, category) ==
  CHOOSE i \in DOMAIN lines :
    /\ IsHeading(lines[i], category)
    /\ \A j \in 1..(i - 1) : ~IsHeading(lines[j], category)

IsBlank(line) == \A p \in DOMAIN line : IsSpace(line[p])

\* spiceContent += `\n\n${category}\n${name}`
AppendGroup(lines, category, name) == lines \o << <<>>, category, name >>

\* beforeInsert + `\n${name}` + afterInsert, cut right after the heading's
\* letter: what followed the letter on its line now follows the name.
InsertAfterHeading(lines, category, name) ==
  LET i == HeadingLine(lines, category)
      rest == SubSeq(lines[i], Len(category) + 1, Len(lines[i]))
  IN SubSeq(lines, 1, i - 1) \o <<category, name \o rest>>
       \o SubSeq(lines, i + 1, Len(lines))

\* The first line at or after i that is not blank, or one past the end.
RECURSIVE SkipBlank(_, _)
SkipBlank(lines, i) ==
  IF i > Len(lines) \/ ~IsBlank(lines[i]) THEN i ELSE SkipBlank(lines, i + 1)

\* spiceContent.replace(categoryRegex, `${category}\n${name}`): \s* takes the
\* blank lines after the heading into the match, so they are replaced too.
ReplaceHeading(lines, category, name) ==
  LET i == HeadingLine(lines, category)
  IN SubSeq(lines, 1, i - 1) \o <<category, name>>
       \o SubSeq(lines, SkipBlank(lines, i + 1), Len(lines))

\* submissions.findIndex(s => s.name === name), 1-based; 0 when not found.
FindSubmission(list, name) ==
  IF \E i \in DOMAIN list : list[i].name = name
  THEN CHOOSE i \in DOMAIN list :
         list[i].name = name /\ \A j \in 1..(i - 1) : list[j].name /= name
  ELSE 0

\* The submissions after submit recorded name: replaced in place, or pushed.
Recorded(name, category) ==
  LET list == IF submissions.exists THEN submissions.list ELSE <<>>
      entry == [name |-> name, category |-> category, status |-> "approved"]
      index == FindSubmission(list, name)
  IN [exists |-> TRUE,
      list |-> IF index > 0 THEN [list EXCEPT ![index] = entry] ELSE Append(list, entry)]

submit(name, category) ==
  LET categoryChar == ToUpperCase(category)
      status == IF name = <<>> \/ category = <<>> THEN "400"
                ELSE IF \A i \in DOMAIN spiceList : spiceList[i] = <<>> THEN "404"
                ELSE IF exactMatchExists(spiceList, name) THEN "exists"
                ELSE "approved"
  IN /\ lastCall' = [op |-> "submit", name |-> name, status |-> status]
     /\ IF status = "approved"
        THEN /\ Len(spiceList) < MaxLines
             /\ spiceList' = IF HasHeading(spiceList, categoryChar)
                             THEN InsertAfterHeading(spiceList, categoryChar, name)
                             ELSE AppendGroup(spiceList, categoryChar, name)
             /\ submissions' = Recorded(name, category)
        ELSE UNCHANGED <<spiceList, submissions>>
     /\ UNCHANGED <<inventory, letterCounts, numShelves, totalJars, lastUpdated,
                    ignoreDuplicates, storage, distribution, shelfInfo, issuedIds,
                    spices, searchResults, inventoryFile, loadCall, uiLetterCounts,
                    saveTimeout>>

approve(name) ==
  LET index == IF submissions.exists THEN FindSubmission(submissions.list, name) ELSE 0
      status == IF name = <<>> THEN "400"
                ELSE IF ~submissions.exists \/ index = 0 THEN "404"
                ELSE "approved"
  IN /\ lastCall' = [op |-> "approve", name |-> name, status |-> status]
     /\ IF status = "approved"
        THEN LET submission == submissions.list[index]
                 category == ToUpperCase(submission.category)
             IN /\ Len(spiceList) < MaxLines
                /\ spiceList' = IF HasHeading(spiceList, category)
                                THEN ReplaceHeading(spiceList, category, submission.name)
                                ELSE AppendGroup(spiceList, category, submission.name)
                /\ submissions' = [submissions EXCEPT !.list[index].status = "approved"]
        ELSE UNCHANGED <<spiceList, submissions>>
     /\ UNCHANGED <<inventory, letterCounts, numShelves, totalJars, lastUpdated,
                    ignoreDuplicates, storage, distribution, shelfInfo, issuedIds,
                    spices, searchResults, inventoryFile, loadCall, uiLetterCounts,
                    saveTimeout>>

\* The server with its spice list in place and no submission recorded yet.
InitServer ==
  /\ inventory = <<>>
  /\ letterCounts = ZeroCounts
  /\ numShelves = DefaultNumShelves
  /\ totalJars = 0
  /\ lastUpdated = Null
  /\ ignoreDuplicates = FALSE
  /\ storage = NoData
  /\ lastCall = [op |-> "listen"]
  /\ distribution = NotComputed
  /\ shelfInfo = NotComputed
  /\ issuedIds = 0
  /\ spices = <<>>
  /\ searchResults = NotComputed
  /\ inventoryFile = NoData
  /\ loadCall = NotCalled
  /\ uiLetterCounts = EmptyObject
  /\ saveTimeout = NoTimeout
  /\ spiceList = InitialSpiceList
  /\ submissions = NoFile

NextServer ==
  \/ \E name \in RequestNames, category \in RequestCategories : submit(name, category)
  \/ \E name \in RequestNames : approve(name)

SpecServer == InitServer /\ [][NextServer]_vars

\* A line that holds a spice name: not blank and not a letter heading.
IsNameLine(line) == ~IsBlank(line) /\ ~(Len(line) = 1 /\ line[1] \in Letters)

\* C29: after any sequence of submit and approve requests no spice name
\* stands on more than one line of the spice list file.
C29_NoNameOnTwoLines ==
  \A i, j \in DOMAIN spiceList :
    (i /= j /\ IsNameLine(spiceList[i])) => Trim(spiceList[i]) /= Trim(spiceList[j])

\* ------------------------------------------------------- organizer component
SaveDelay == 500      \* setTimeout(saveData, 500)

TickMs == 250         \* time passes in steps of this many milliseconds
MaxUiAdds == 1        \* the component's addSpice is explored up to this many calls

\* The value typed into the shelves input.
ShelfInputs == {2}

\* The name the user picks from the search results.
UiNames == { <<"s","a","l","t">> }

\* What an earlier session may have left in localStorage and on the server:
\* nothing, a snapshot of an empty inventory, or a snapshot of one jar.
SavedSnapshots ==
  {NoData} \cup
  { [present |-> TRUE, inventory |-> items, numShelves |-> 2, lastUpdated |-> "t1"] :
      items \in { <<>>, << [id |-> 0, name |-> <<"B","a","s","i","l">>] >> } }

\* A timeout that was just set.
FreshTimeout == [pending |-> TRUE, waited |-> 0]

\* A save effect without its cleanup: a timeout already pending is left to run.
SaveEffectNoCleanup(changed, counts, timeout) ==
  IF ~changed \/ timeout.pending THEN timeout
  ELSE IF counts = EmptyObject THEN NoTimeout
  ELSE FreshTimeout

\* The save effect after a render: when one of its dependencies changed, the
\* cleanup clears the timeout of the previous run, and the effect sets a new
\* one unless the component's letterCounts has no key yet.
SaveEffect(changed, counts, timeout) ==
  IF ~changed THEN timeout
  ELSE IF counts = EmptyObject THEN NoTimeout
  ELSE FreshTimeout

\* The distribution effect: setOptimalDistribution(calculateOptimalDistribution()).
OptimalDistribution(counts, items, shelves) ==
  Computed(DistributionOf(EffectiveCounts(counts, items, ignoreDuplicates), shelves))

\* The component's addSpice.
handleAddSpice(raw) ==
  LET properlyCapitalizedName == properlyCapitalizeName(raw)
      firstLetter == FirstLetter(properlyCapitalizedName)
      newItem == [id |-> FreshId, name |-> properlyCapitalizedName]
  IN /\ issuedIds < MaxUiAdds
     /\ issuedIds' = issuedIds + 1
     /\ inventory' = Append(inventory, newItem)
     /\ letterCounts' = [letterCounts EXCEPT ![firstLetter] = @ + 1]
     /\ totalJars' = totalJars + 1
     /\ uiLetterCounts' = "this.letterCounts"
     /\ saveTimeout' = SaveEffect(TRUE, uiLetterCounts', saveTimeout)
     /\ distribution' = OptimalDistribution(letterCounts', inventory', numShelves)
     /\ lastCall' = [op |-> "addSpice", arg |-> raw, cleared |-> saveTimeout.pending]
     /\ UNCHANGED <<numShelves, lastUpdated, ignoreDuplicates, storage, shelfInfo,
                    spices, searchResults, inventoryFile, loadCall, spiceList,
                    submissions>>

\* The component's removeSpice, for an id of the rendered inventory.
handleRemoveSpice(id) ==
  LET itemToRemove == FindById(inventory, id)
      firstLetter == FirstLetter(itemToRemove.name)
  IN /\ id \in IdsOf(inventory)
     /\ inventory' = FilterOutId(inventory, id)
     /\ letterCounts' = [letterCounts EXCEPT ![firstLetter] = Max(0, @ - 1)]
     /\ totalJars' = totalJars - 1
     /\ uiLetterCounts' = "this.letterCounts"
     /\ saveTimeout' = SaveEffect(TRUE, uiLetterCounts', saveTimeout)
     /\ distribution' = OptimalDistribution(letterCounts', inventory', numShelves)
     /\ lastCall' = [op |-> "removeSpice", arg |-> id, cleared |-> saveTimeout.pending]
     /\ UNCHANGED <<numShelves, lastUpdated, ignoreDuplicates, storage, shelfInfo,
                    issuedIds, spices, searchResults, inventoryFile, loadCall,
                    spiceList, submissions>>

\* The component's resetInventory: setInventory([]) is a new array each time.
handleResetInventory ==
  /\ inventory' = <<>>
  /\ letterCounts' = ZeroLetters(letterCounts)
  /\ totalJars' = 0
  /\ uiLetterCounts' = "this.letterCounts"
  /\ saveTimeout' = SaveEffect(TRUE, uiLetterCounts', saveTimeout)
  /\ distribution' = OptimalDistribution(letterCounts', inventory', numShelves)
  /\ lastCall' = [op |-> "resetInventory", cleared |-> saveTimeout.pending]
  /\ UNCHANGED <<numShelves, lastUpdated, ignoreDuplicates, storage, shelfInfo,
                 issuedIds, spices, searchResults, inventoryFile, loadCall,
                 spiceList, submissions>>

\* onChange of the shelves input: Math.max(1, parseInt(e.target.value) || 1).
handleShelvesChange(value) ==
  LET newValue == Max(1, IF value = 0 THEN 1 ELSE value)
  IN /\ numShelves' = ClampShelves(newValue)
     /\ saveTimeout' = SaveEffect(numShelves' /= numShelves, uiLetterCounts, saveTimeout)
     /\ distribution' = OptimalDistribution(letterCounts, inventory, numShelves')
     /\ lastCall' = [op |-> "setNumShelves", arg |-> value,
                     cleared |-> numShelves' /= numShelves /\ saveTimeout.pending]
     /\ UNCHANGED <<inventory, letterCounts, totalJars, lastUpdated, ignoreDuplicates,
                    storage, shelfInfo, issuedIds, spices, searchResults,
                    inventoryFile, loadCall, uiLetterCounts, spiceList, submissions>>

clearSavedData ==
  /\ storage' = NoData
  /\ inventory' = <<>>
  /\ letterCounts' = ZeroLetters(letterCounts)
  /\ totalJars' = 0
  /\ numShelves' = DefaultNumShelves
  /\ lastUpdated' = Null
  /\ uiLetterCounts' = "this.letterCounts"
  /\ saveTimeout' = SaveEffect(TRUE, uiLetterCounts', saveTimeout)
  /\ distribution' = OptimalDistribution(letterCounts', inventory', numShelves')
  /\ lastCall' = [op |-> "clearStorage", cleared |-> saveTimeout.pending]
  /\ UNCHANGED <<ignoreDuplicates, shelfInfo, issuedIds, spices, searchResults,
                 inventoryFile, loadCall, spiceList, submissions>>

\* GET /api/inventory/:userId is answered: with the user's file or data: null,
\* or the request fails.
serverResponds(ok) ==
  /\ loadCall.pc = "awaiting"
  /\ loadCall' = [pc |-> "responded", ok |-> ok,
                  data |-> IF ok THEN inventoryFile ELSE NoData]
  /\ lastCall' = [op |-> "GET /api/inventory"]
  /\ UNCHANGED <<inventory, letterCounts, numShelves, totalJars, lastUpdated,
                 ignoreDuplicates, storage, distribution, shelfInfo, issuedIds,
                 spices, searchResults, inventoryFile, uiLetterCounts, saveTimeout,
                 spiceList, submissions>>

\* loadData from the point where the response has arrived, and the rest of
\* the load effect: loadFromServer's assignments, the localStorage fallback
\* with its saveToServer, and the component's state updates.
loadDataResume(synced) ==
  LET data == loadCall.data
      serverLoaded == loadCall.ok /\ data.present
      inventory1 == IF serverLoaded THEN data.inventory ELSE inventory
      fromServer == loadCall.ok /\ Len(inventory1) > 0
      fromStorage == ~fromServer /\ storage.present
      loaded == IF fromStorage THEN storage ELSE data
      source == IF fromServer THEN "server"
                ELSE IF fromStorage /\ Len(storage.inventory) > 0 THEN "localStorage"
                ELSE "none"
  IN /\ loadCall.pc = "responded"
     /\ IF serverLoaded \/ fromStorage
        THEN /\ inventory' = loaded.inventory
             /\ letterCounts' = CountEntries(loaded.inventory, ZeroLetters(letterCounts))
             /\ numShelves' = IF fromStorage THEN LoadedShelves(loaded)
                              ELSE IF IsFalsy(loaded.numShelves) THEN DefaultNumShelves
                              ELSE loaded.numShelves
             /\ totalJars' = Len(loaded.inventory)
             /\ lastUpdated' = loaded.lastUpdated
        ELSE UNCHANGED <<inventory, letterCounts, numShelves, totalJars, lastUpdated>>
     /\ inventoryFile' = IF source = "localStorage" /\ synced
                         THEN [present |-> TRUE, inventory |-> inventory',
                               numShelves |-> numShelves', lastUpdated |-> "t1"]
                         ELSE inventoryFile
     /\ loadCall' = [pc |-> "done", ok |-> loadCall.ok, data |-> data, source |-> source]
     /\ uiLetterCounts' = "this.letterCounts"
     /\ saveTimeout' = SaveEffect(uiLetterCounts = EmptyObject \/ serverLoaded \/ fromStorage,
                                  uiLetterCounts', saveTimeout)
     /\ distribution' = OptimalDistribution(letterCounts', inventory', numShelves')
     /\ lastCall' = [op |-> "loadData", source |-> source]
     /\ UNCHANGED <<ignoreDuplicates, storage, shelfInfo, issuedIds, spices,
                    searchResults, spiceList, submissions>>

\* Time passes while no timeout is due.
timePasses ==
  /\ saveTimeout.pending
  /\ saveTimeout.waited < SaveDelay
  /\ saveTimeout' = [saveTimeout EXCEPT !.waited = @ + TickMs]
  /\ lastCall' = [op |-> "timePasses"]
  /\ UNCHANGED <<inventory, letterCounts, numShelves, totalJars, lastUpdated,
                 ignoreDuplicates, storage, distribution, shelfInfo, issuedIds,
                 spices, searchResults, inventoryFile, loadCall, uiLetterCounts,
                 spiceList, submissions>>

\* The timeout fires: saveData writes localStorage and posts the same snapshot
\* to the server, which stores it unless the request fails.
saveData(posted) ==
  \E now \in Timestamps :
    /\ saveTimeout.pending
    /\ saveTimeout.waited >= SaveDelay
    /\ saveTimeout' = NoTimeout
    /\ storage' = SavedData(now)
    /\ inventoryFile' = IF posted THEN SavedData(now) ELSE inventoryFile
    /\ lastUpdated' = now
    /\ lastCall' = [op |-> "saveData", server |-> posted]
    /\ UNCHANGED <<inventory, letterCounts, numShelves, totalJars, ignoreDuplicates,
                   distribution, shelfInfo, issuedIds, spices, searchResults,
                   loadCall, uiLetterCounts, spiceList, submissions>>

\* The component after its mount effects: a new SpiceLogic, loadData() called
\* and waiting for the server, no timeout set (letterCounts is still {}).
InitUI ==
  /\ inventory = <<>>
  /\ letterCounts = ZeroCounts
  /\ numShelves = DefaultNumShelves
  /\ totalJars = 0
  /\ lastUpdated = Null
  /\ ignoreDuplicates = FALSE
  /\ storage \in SavedSnapshots
  /\ lastCall = [op |-> "mount"]
  /\ distribution = Computed(<<>>)
  /\ shelfInfo = NotComputed
  /\ issuedIds = 0
  /\ spices = <<>>
  /\ searchResults = NotComputed
  /\ inventoryFile \in SavedSnapshots
  /\ loadCall = [pc |-> "awaiting"]
  /\ uiLetterCounts = EmptyObject
  /\ saveTimeout = NoTimeout
  /\ spiceList = <<>>
  /\ submissions = NoFile

NextUI ==
  \/ \E raw \in UiNames : handleAddSpice(raw)
  \/ \E id \in 0..MaxUiAdds : handleRemoveSpice(id)
  \/ handleResetInventory
  \/ \E value \in ShelfInputs : handleShelvesChange(value)
  \/ clearSavedData
  \/ \E ok \in BOOLEAN : serverResponds(ok)
  \/ \E synced \in BOOLEAN : loadDataResume(synced)
  \/ timePasses
  \/ \E posted \in BOOLEAN : saveData(posted)

SpecUI == InitUI /\ [][NextUI]_vars

\* A step changes one of the save effect's dependencies.
DepsChange ==
  \/ inventory' /= inventory
  \/ letterCounts' /= letterCounts
  \/ numShelves' /= numShelves
  \/ totalJars' /= totalJars

\* A save runs only when its timeout has waited the full delay since the
\* last change, it is the only way data gets stored, it leaves no timeout
\* pending and it stores the state as it is at that time.
SaveRunsOncePerBurst ==
  /\ lastCall'.op = "saveData" =>
       /\ saveTimeout.pending /\ saveTimeout.waited >= SaveDelay
       /\ saveTimeout' = NoTimeout
       /\ storage'.inventory = inventory' /\ storage'.numShelves = numShelves'
  /\ (storage' /= storage /\ storage'.present) => lastCall'.op = "saveData"

C26_ServerDataTakesPrecedence ==
  lastCall.op = "loadData" =>
    LET data == loadCall.data
        serverHasJars == loadCall.ok /\ data.present /\ Len(data.inventory) > 0
        storageHasJars == storage.present /\ Len(storage.inventory) > 0
    IN /\ lastCall.source = "server" <=> serverHasJars
       /\ lastCall.source = "server" =>
            inventory = data.inventory /\ numShelves = data.numShelves
       /\ lastCall.source = "localStorage" =>
            ~serverHasJars /\ storageHasJars /\ inventory = storage.inventory
       /\ (~serverHasJars /\ ~storageHasJars) => lastCall.source = "none"

\* C28: a spice added through addSpice stays in the inventory in every step
\* that is not removeSpice, resetInventory or clearStorage; so it also stays
\* when a loadData that was awaiting the server completes.
C28_AddedSpiceStays ==
  [][\A id \in 1..issuedIds :
       (id \in IdsOf(inventory)
          /\ lastCall'.op \notin {"removeSpice", "resetInventory", "clearStorage"})
       => id \in IdsOf(inventory')]_vars

\* ------------------------------------------------- ranking of one-term queries
DefaultLimit == 10    \* fuzzySearch(query, limit = 10)

\* Names of spicelist.md, a long one among them. Their lengths (21, 7, 8, 4)
\* and the scan lengths of RankQueries on them divide ScoreScale.
RankNames ==
  { <<"L","i","o","n","'","s"," ","M","a","n","e"," ","M","u","s","h","r","o","o","m","s">>,
    <<"M","u","s","t","a","r","d">>,
    <<"M","a","r","j","o","r","a","m">>,
    <<"M","a","c","e">> }

\* Queries of one term.
RankQueries == { <<"m","s">>, <<"m","a">>, <<"n","e">>, <<"u","s">> }

RankCatalogs ==
  UNION { {c \in [1..n -> [name : RankNames]] :
             \A i, j \in 1..n : i /= j => c[i] /= c[j]} : n \in 0..3 }

\* An instance whose catalog was set from the spice list.
InitRank ==
  /\ inventory = <<>>
  /\ letterCounts = ZeroCounts
  /\ numShelves = DefaultNumShelves
  /\ totalJars = 0
  /\ lastUpdated = Null
  /\ ignoreDuplicates = FALSE
  /\ storage = NoData
  /\ lastCall = [op |-> "setSpices"]
  /\ distribution = NotComputed
  /\ shelfInfo = NotComputed
  /\ issuedIds = 0
  /\ spices \in RankCatalogs
  /\ searchResults = NotComputed
  /\ inventoryFile = NoData
  /\ loadCall = NotCalled
  /\ uiLetterCounts = EmptyObject
  /\ saveTimeout = NoTimeout
  /\ spiceList = <<>>
  /\ submissions = NoFile

NextRank == \E query \in RankQueries : fuzzySearch(query, DefaultLimit)

SpecRank == InitRank /\ [][NextRank]_vars

\* C27: for a query of one term, every candidate whose name holds the term
\* as a substring scores strictly higher than every candidate that matches
\* it only as a subsequence with skipped characters.
C27_SubstringOutranksSubsequence ==
  (lastCall.op = "fuzzySearch" /\ Cardinality(TermsOf(lastCall.query)) = 1) =>
    \A term \in TermsOf(lastCall.query) :
      \A a, b \in DOMAIN searchResults.value :
        (/\ IsSubstring(term, ToLowerCase(searchResults.value[a].name))
         /\ ~IsSubstring(term, ToLowerCase(searchResults.value[b].name)))
        => searchResults.value[a].score > searchResults.value[b].score

====
